---- MODULE Spec2Model ----
(***************************************************************************)
(* Model of the hybrid query router and answer composer of Dr.Doc:        *)
(*   backend/agent_rag_interface.py  (AgentRAGInterface, query_for_agent) *)
(*   backend/doc_qa_agent.py         (handle_question)                    *)
(*   backend/app_agno_hybrid.py      (AgnoHybridQASystem)                 *)
(*   backend/fetchai_agno_rag.py     (FetchAIAgnoRAG.query)               *)
(*   backend/metta_ingest.py         (query_advanced_patterns)            *)
(*   backend/simple_rag.py           (SimpleRAG._get_metta_citations)     *)
(*   backend/mcp_server.py           (process_documents, citations)       *)
(*                                                                         *)
(* Texts are sequences of string tokens; a token is an indivisible piece  *)
(* of text with a character count (TokLen) and a lower-case form           *)
(* (LowerTok).  Confidences are held in hundredths (0.9 is 90).           *)
(***************************************************************************)
EXTENDS Integers, Sequences, FiniteSets, TLC

VARIABLES
    enable_metta,   \* AgentRAGInterface.enable_metta
    metta_kb,       \* TRUE iff AgentRAGInterface.metta_kb is not None
    system,         \* which system serves the query: "interface" (AgentRAGInterface)
                    \* or "agno" (AgnoHybridQASystem)
    pc,             \* position of the query in flight
    requested,      \* the strategy string the caller supplied
    question,       \* the question text
    context,        \* the optional context text ("" is None)
    query_type,     \* the QueryType held by the local of query()
    requested_type, \* the QueryType query() was called with
    classifyCalls,  \* calls of _detect_query_type in this query
    mettaCalls,     \* calls of metta_kb.query_advanced_patterns in this query
    ragCalls,       \* calls of agno_rag.query in this query
    mettaOut,       \* what the symbolic collaborator did (or NoOutcome)
    ragOut,         \* what the semantic collaborator did, one entry per call
    metta_result,   \* local metta_result of _query_hybrid / query
    rag_result,     \* local rag_result of _query_hybrid / query
    executed,       \* which of _query_rag_only/_query_metta_only/_query_hybrid query() called
    result,         \* the value handed back to the caller
    raised,         \* the exception that escaped to the caller ("" if none)
    \* SimpleRAG._get_metta_citations / mcp_server._extract_metta_citations
    cite_pc,          \* position of the citation rendering
    cite_question,    \* the question SimpleRAG.query was asked
    atoms,            \* what the knowledge base returns per category
    metta_reasoning,  \* the lines of the reasoning text given to mcp_server
    metta_citations,  \* local metta_citations
    citation_lines,   \* the entries rendered under "MeTTa Atom Citations"
    \* _query_hybrid / AgnoHybridQASystem.query with the two calls in either order
    call_order,       \* which collaborator is called first
    planned,          \* what each collaborator will answer to this question
    first_result,     \* what the query returned with the symbolic call first
    \* Two request threads on the global interface (get_agent_interface,
    \* FetchAIAgnoRAG.ensure_initialized, FetchAIAgnoRAG.query)
    thread_pc,            \* position of each thread
    thread_question,      \* the question each thread asks
    interface,            \* local `interface` of query_for_agent (0: not yet bound)
    response,             \* local `response` of FetchAIAgnoRAG.query
    thread_result,        \* what FetchAIAgnoRAG.query returned to each thread
    agent_interface,      \* global _agent_interface (0 is None)
    constructions,        \* AgentRAGInterface instances constructed
    backend,              \* the FetchAIAgnoRAG of each instance: _initialized,
                          \* knowledge, rag_agent and the runs of _initialize_agno_rag
    last_search_results,  \* Knowledge.last_search_results of each Knowledge object
    tracks_results,       \* TRUE iff the Knowledge objects keep last_search_results
    \* mcp_server.process_documents, called from the request threads of api_wrapper
    proc_pc,              \* position of each call
    proc_calls,           \* calls each thread has started
    proc_return,          \* what the last call of each thread returned
    started_initialized,  \* processing_status["initialized"] when the call started
    rag_system,           \* global rag_system (0 is None)
    mcp_metta_kb,         \* global metta_kb of mcp_server (0 is None)
    processing_status,    \* processing_status["initialized"]
    metta_file,           \* TRUE iff api_facts.metta exists
    documents,            \* the rows of the documents table
    metta_runs,           \* runs of create_metta_knowledge_base
    rag_runs              \* runs of create_rag_pipeline

queryVars == <<enable_metta, metta_kb, system, pc, requested, question, context,
               query_type, requested_type, classifyCalls, mettaCalls, ragCalls,
               mettaOut, ragOut, metta_result, rag_result, executed, result, raised>>

citeVars == <<cite_pc, cite_question, atoms, metta_reasoning, metta_citations,
              citation_lines>>

orderVars == <<call_order, planned, first_result>>

threadVars == <<thread_pc, thread_question, interface, response, thread_result,
                agent_interface, constructions, backend, last_search_results,
                tracks_results>>

procVars == <<proc_pc, proc_calls, proc_return, started_initialized, rag_system,
              mcp_metta_kb, processing_status, metta_file, documents, metta_runs,
              rag_runs>>

\* The variables outside the query in flight
extVars == <<citeVars, orderVars, threadVars, procVars>>

vars == <<queryVars, extVars>>

(***************************************************************************)
(* Bounds of the model.                                                    *)
(***************************************************************************)
MaxFacts == 1       \* facts the knowledge base holds per category
MaxSources == 1     \* sources the semantic collaborator returns
MaxCites == 4      \* citations retrieved for the results given to the composers
MaxCLen == 3        \* tokens in a question put to the classifier alone
MaxAtoms == 4       \* atoms the knowledge base holds per citation category
MaxCalls == 2       \* calls of process_documents each request thread makes

(***************************************************************************)
(* Constants of the program.                                               *)
(***************************************************************************)
RAG_CONFIDENCE == 80
METTA_CONFIDENCE == 90
PRIMARY_THRESHOLD == 50
context_min_len_inclusive == 100 - 1

CONTEXT_MIN_LEN == 100
INTERFACE_SOURCE_CAP == 3

(***************************************************************************)
(* Text                                                                    *)
(***************************************************************************)
NoneText == <<"<None>">>     \* Python None where a str was expected
RaiseText == <<"<raise>">>   \* no text: the expression raised

Whitespace == {" ", "\n"}

\* len() of a token: the number of characters it stands for.
TokLen(t) ==
    CASE t = "B80" -> 80
      [] t = "B100" -> 100
      [] t = "B101" -> 101
      [] t = "OAuth is NOT supported" -> 22
      [] t = "PKCE is not supported" -> 21
      [] t = " " -> 1
      [] t = "\n" -> 1
      [] t = "\n\n" -> 2
      [] t = "connection refused" -> 18
      [] t = "Error querying RAG system: " -> 27
      [] t = "Sorry, I encountered an error while processing your question: " -> 63
      [] t = "**Network Connection Error:**" -> 190
      [] t = "Knowledge base not initialized" -> 400
      [] OTHER -> 30

RECURSIVE TextLen(_)
TextLen(s) == IF s = <<>> THEN 0 ELSE TokLen(Head(s)) + TextLen(Tail(s))

\* str.lower() of one token
LowerTok(t) ==
    CASE t = "What" -> "what"
      [] t = "OAuth" -> "oauth"
      [] t = "OAuth is NOT supported" -> "oauth is not supported"
      [] t = "PKCE is not supported" -> "pkce is not supported"
      [] t = "OAuth not supported" -> "oauth not supported"
      [] t = "## OAuth Authentication Flows" -> "## oauth authentication flows"
      [] t = "The following OAuth 2.0 authentication flows are supported:" ->
             "the following oauth 2.0 authentication flows are supported:"
      [] t = "* **Authorization Code Flow**: Standard OAuth 2.0 flow for web applications" ->
             "* **authorization code flow**: standard oauth 2.0 flow for web applications"
      [] t = "**: OAuth 2.0 authentication flow" -> "**: oauth 2.0 authentication flow"
      [] t = "## MeTTa Knowledge Base Results" -> "## metta knowledge base results"
      [] t = "## Advanced API Patterns" -> "## advanced api patterns"
      [] OTHER -> t

Lower(s) == [i \in 1..Len(s) |-> LowerTok(s[i])]

\* The pairs <<token, w>> with w a proper substring of the (lower-case) token.
Substrings ==
    { <<"oauth", "auth">>,
      <<"oauth is not supported", "oauth">>,
      <<"oauth is not supported", "auth">>,
      <<"oauth is not supported", "oauth is not supported">>,
      <<"## oauth authentication flows", "oauth">>,
      <<"## oauth authentication flows", "auth">>,
      <<"## oauth authentication flows", "authentication">>,
      <<"oauth not supported", "oauth">>,
      <<"the following oauth 2.0 authentication flows are supported:", "oauth">>,
      <<"* **authorization code flow**: standard oauth 2.0 flow for web applications", "oauth">>,
      <<"**: oauth 2.0 authentication flow", "oauth">>,
      <<"Combined MeTTa facts (confidence: ", "MeTTa">>,
      <<") with RAG context", "RAG">>,
      <<") with RAG context for comprehensive answer", "RAG">>,
      <<"Used RAG as primary (confidence: ", "RAG">>,
      <<"), MeTTa provided additional context", "MeTTa">>,
      <<"MeTTa found limited results (confidence: ", "MeTTa">>,
      <<"), used RAG for comprehensive answer", "RAG">>,
      <<"Used RAG system for comprehensive answer (MeTTa not available)", "RAG">>,
      <<"Used RAG system for comprehensive answer (MeTTa not available)", "MeTTa">>,
      <<"vegas", "gas">>,
      <<"errors", "error">>,
      <<"Error code ", "Error code">>,
      <<"Rate limit: ", "Rate limit">>,
      <<"API endpoint: ", "API endpoint">>,
      <<"Security Patterns", "Security Pattern">> }

\* `w in token`
TokHas(t, w) == t = w \/ <<t, w>> \in Substrings

\* `w in text`
TextHas(s, w) == \E i \in 1..Len(s) : TokHas(s[i], w)

RECURSIVE LStrip(_)
LStrip(s) == IF s # <<>> /\ Head(s) \in Whitespace THEN LStrip(Tail(s)) ELSE s

RECURSIVE RStrip(_)
RStrip(s) ==
    IF s # <<>> /\ s[Len(s)] \in Whitespace
    THEN RStrip(SubSeq(s, 1, Len(s) - 1)) ELSE s

\* str.strip()
Strip(s) == RStrip(LStrip(s))

\* "\n".join(parts), parts a sequence of texts
RECURSIVE Join(_)
Join(parts) ==
    IF parts = <<>> THEN <<>>
    ELSE IF Len(parts) = 1 THEN parts[1]
    ELSE parts[1] \o <<"\n">> \o Join(Tail(parts))

\* a occurs in b as a contiguous piece
IsInfix(a, b) ==
    \E i \in 0..(Len(b) - Len(a)) : SubSeq(b, i + 1, i + Len(a)) = a

\* f"{x:.2f}" of a confidence
Fmt2(c) ==
    CASE c = 0 -> "0.00"
      [] c = RAG_CONFIDENCE -> "0.80"
      [] c = METTA_CONFIDENCE -> "0.90"
      [] OTHER -> "?.??"

RECURSIVE SeqsUpTo(_, _)
SeqsUpTo(S, n) ==
    IF n = 0 THEN {<<>>}
    ELSE LET shorter == SeqsUpTo(S, n - 1)
         IN shorter \cup {Append(s, x) : s \in {t \in shorter : Len(t) = n - 1}, x \in S}

(***************************************************************************)
(* Classifier: AgentRAGInterface._detect_query_type                        *)
(***************************************************************************)
\* Each regular expression w1.*w2.*...wk is held as <<w1, ..., wk>>.
metta_patterns ==
    << <<"what", "error", "code">>,
       <<"what", "rate", "limit">>,
       <<"what", "parameters">>,
       <<"list", "endpoints">>,
       <<"what", "tier">>,
       <<"how", "many", "requests">>,
       <<"what", "authentication">>,
       <<"what", "endpoint", "supports">>,
       <<"what", "status", "code">>,
       <<"what", "slippage">>,
       <<"what", "gas">>,
       <<"what", "fee">>,
       <<"what", "oauth">>,
       <<"what", "security">>,
       <<"what", "performance">>,
       <<"what", "monitoring">> >>

\* re.search(pattern, text): the literals occur in order, each in a later
\* token than the one before, and `.` never crosses a newline.
ReSearch(pattern, text) ==
    \E f \in [1..Len(pattern) -> 1..Len(text)] :
        /\ \A k \in 1..Len(pattern) : TokHas(text[f[k]], pattern[k])
        /\ \A k \in 1..(Len(pattern) - 1) : f[k] < f[k + 1]
        /\ \A j \in f[1]..f[Len(pattern)] : text[j] # "\n"


RECURSIVE DetectFrom(_, _, _)
DetectFrom(i, question_lower, enabled) ==
    IF i > Len(metta_patterns) THEN "rag"
    ELSE IF ReSearch(metta_patterns[i], question_lower)
         THEN (IF enabled THEN "hybrid" ELSE "rag")
         ELSE DetectFrom(i + 1, question_lower, enabled)

\* The classifier without question.lower()
detect_query_type_case_sensitive(q, enabled) == DetectFrom(1, q, enabled)

detect_query_type(q, enabled) == DetectFrom(1, Lower(q), enabled)

(***************************************************************************)
(* Symbolic collaborator: MeTTaKnowledgeBase.query_advanced_patterns       *)
(***************************************************************************)
SecurityFacts ==
    { [pattern |-> "oauth", flow_type |-> "authorization_code", category |-> "security"] }
PerformanceFacts ==
    { [category |-> "caching", pattern |-> "redis", type |-> "performance"] }
MonitoringFacts ==
    { [type |-> "metrics", concept |-> "latency", category |-> "monitoring"] }
ErrorFacts ==
    { [endpoint |-> "/swap", code |-> "400", description |-> "Bad Request"] }

\* What the knowledge base answers to each of the four category queries.
KBs ==
    [ security : SeqsUpTo(SecurityFacts, MaxFacts),
      performance : SeqsUpTo(PerformanceFacts, MaxFacts),
      monitoring : SeqsUpTo(MonitoringFacts, MaxFacts),
      errors : SeqsUpTo(ErrorFacts, MaxFacts) ]

AnyWord(words, text) == \E w \in words : TextHas(text, w)

query_advanced_patterns(query_text, kb) ==
    LET query_lower == Lower(query_text)
    IN  (IF AnyWord({"oauth", "authentication", "security", "auth"}, query_lower)
         THEN kb.security ELSE <<>>)
        \o (IF AnyWord({"performance", "cache", "optimization", "speed"}, query_lower)
            THEN kb.performance ELSE <<>>)
        \o (IF AnyWord({"monitoring", "logging", "metrics", "observability"}, query_lower)
            THEN kb.monitoring ELSE <<>>)
        \o (IF AnyWord({"error", "exception", "failure", "handling"}, query_lower)
            THEN kb.errors ELSE <<>>)

NoOutcome == [kind |-> "none"]

ErrorMessages == {"connection refused"}

\* A collaborator call either raises or returns a value.
MettaOutcomes(q) ==
    {[kind |-> "raise", msg |-> m] : m \in ErrorMessages}
    \cup {[kind |-> "return", value |-> query_advanced_patterns(q, kb)] : kb \in KBs}

(***************************************************************************)
(* Semantic collaborator: FetchAIAgnoRAG.query                             *)
(***************************************************************************)
RAG_K == 5
PLACEHOLDER_SCORE == 70

SourceSet ==
    { [content |-> "c1", source |-> "auth.md", score |-> 90],
      [content |-> "c2", source |-> "limits.md", score |-> 50] }

\* response.content of the LLM agent
Contents ==
    { NoneText,
      <<" ", "B100", " ">>,
      <<"B101">>,
      <<"B80", "OAuth is NOT supported">>,
      <<"B80", "PKCE is not supported">> }

\* What happens inside FetchAIAgnoRAG.query: the knowledge base is missing,
\* the agent run raises, or the agent answers and the retrieval reports hits.
Backends ==
    {[kind |-> "no_knowledge"]}
    \cup {[kind |-> "agent_fails", msg |-> m] : m \in ErrorMessages}
    \cup {[kind |-> "ok", content |-> c, hits |-> h] :
            c \in Contents, h \in SeqsUpTo(SourceSet, MaxSources)}

Take(s, n) == SubSeq(s, 1, IF Len(s) < n THEN Len(s) ELSE n)

agno_rag_query(q, b) ==
    IF b.kind = "no_knowledge"
    THEN [answer |-> <<"Knowledge base not initialized">>,
          sources |-> <<>>, context_used |-> 0, source |-> "agno_rag",
          error |-> "Knowledge base not available", helpful_message |-> TRUE]
    ELSE IF b.kind = "agent_fails"
    THEN [answer |-> <<"Sorry, I encountered an error while processing your question: ",
                       b.msg, "\n\n", "**Network Connection Error:**">>,
          sources |-> <<>>, context_used |-> 0, source |-> "agno_rag",
          error |-> b.msg, helpful_message |-> TRUE]
    ELSE LET sources ==
                 IF b.hits # <<>> THEN Take(b.hits, RAG_K)
                 ELSE << [content |-> "Documentation related to", 
                          source |-> "TokenSwap API Documentation",
                          score |-> PLACEHOLDER_SCORE] >>
         IN [answer |-> b.content, sources |-> sources,
             context_used |-> Len(sources), source |-> "agno_rag",
             model_source |-> "fetchai"]

RagOutcomes(q) ==
    {[kind |-> "raise", msg |-> m] : m \in ErrorMessages}
    \cup {[kind |-> "return", value |-> agno_rag_query(q, b)] : b \in Backends}

\* dict.get(key, default)
Get(d, key, default) == IF key \in DOMAIN d THEN d[key] ELSE default


(***************************************************************************)
(* AgentRAGInterface: the three strategies                                 *)
(***************************************************************************)
NoResult == [query_type |-> "none"]

QueryResult(answer, sources, facts, qt, confidence, reasoning, model_source, metadata) ==
    [answer |-> answer, sources |-> sources, facts |-> facts, query_type |-> qt,
     confidence |-> confidence, reasoning |-> reasoning,
     model_source |-> model_source, response_time |-> 0, metadata |-> metadata]

\* _query_rag_only giving no confidence to an error the collaborator reports
query_rag_only_zero_on_reported_error(q, ctx, o) ==
    IF o.kind = "raise"
    THEN QueryResult(<<"Error querying RAG system: ", o.msg>>, <<>>, <<>>, "rag",
                     0, <<"RAG query failed">>, "error", [error |-> o.msg])
    ELSE QueryResult(Get(o.value, "answer", <<"No answer available">>),
                     Get(o.value, "sources", <<>>), <<>>, "rag",
                     IF "error" \in DOMAIN o.value THEN 0 ELSE RAG_CONFIDENCE,
                     <<"Used RAG system for comprehensive answer">>,
                     Get(o.value, "model_source", "unknown"),
                     [rag_details |->
                         [sources_found |-> Len(Get(o.value, "sources", <<>>)),
                          context_used |-> Get(o.value, "context_used", 0)]])

\* _query_rag_only keeping the default confidence when the call raises
query_rag_only_confident_on_error(q, ctx, o) ==
    IF o.kind = "raise"
    THEN QueryResult(<<"Error querying RAG system: ", o.msg>>, <<>>, <<>>, "rag",
                     RAG_CONFIDENCE, <<"RAG query failed">>, "error", [error |-> o.msg])
    ELSE QueryResult(Get(o.value, "answer", <<"No answer available">>),
                     Get(o.value, "sources", <<>>), <<>>, "rag", RAG_CONFIDENCE,
                     <<"Used RAG system for comprehensive answer">>,
                     Get(o.value, "model_source", "unknown"),
                     [rag_details |->
                         [sources_found |-> Len(Get(o.value, "sources", <<>>)),
                          context_used |-> Get(o.value, "context_used", 0)]])

\* _query_rag_only, given what the call of self.agno_rag.query did
query_rag_only(q, ctx, o) ==
    IF o.kind = "raise"
    THEN QueryResult(<<"Error querying RAG system: ", o.msg>>, <<>>, <<>>, "rag",
                     0, <<"RAG query failed">>, "error", [error |-> o.msg])
    ELSE LET raw == o.value
         IN QueryResult(Get(raw, "answer", <<"No answer available">>),
                        Get(raw, "sources", <<>>), <<>>, "rag",
                        RAG_CONFIDENCE,
                        <<"Used RAG system for comprehensive answer">>,
                        Get(raw, "model_source", "unknown"),
                        [rag_details |->
                            [sources_found |-> Len(Get(raw, "sources", <<>>)),
                             context_used |-> Get(raw, "context_used", 0)]])

\* One line of the MeTTa answer per fact that has a 'pattern' or a 'concept'.
FactLine(f) ==
    IF "pattern" \in DOMAIN f
    THEN << <<"* **", f.pattern, "**: ",
              Get(f, "flow_type", Get(f, "concept", "N/A"))>> >>
    ELSE IF "concept" \in DOMAIN f
    THEN << <<"* **", f.concept, "**: ", Get(f, "type", "N/A")>> >>
    ELSE <<>>

RECURSIVE FactLines(_)
FactLines(facts) ==
    IF facts = <<>> THEN <<>> ELSE FactLine(Head(facts)) \o FactLines(Tail(facts))

MettaAvailable == enable_metta /\ metta_kb

\* _query_metta_only reporting an empty match list as a failed query
query_metta_only_empty_is_error(q, ctx, o) ==
    IF o.kind = "none"
    THEN QueryResult(<<"MeTTa system not available">>, <<>>, <<>>, "metta", 0,
                     <<"MeTTa system not enabled or available">>, "none",
                     [error |-> "MeTTa not available"])
    ELSE IF o.kind = "raise" \/ o.value = <<>>
    THEN QueryResult(<<"Error querying MeTTa system: ", "no facts">>, <<>>, <<>>, "metta",
                     0, <<"MeTTa query failed">>, "error", [error |-> "no facts"])
    ELSE QueryResult(Join(<< <<"## MeTTa Knowledge Base Results">> >> \o FactLines(o.value)),
                     <<>>, o.value, "metta", METTA_CONFIDENCE,
                     <<"Used MeTTa knowledge base for precise facts">>, "metta",
                     [metta_details |->
                         [facts_found |-> Len(o.value), confidence |-> METTA_CONFIDENCE]])

\* _query_metta_only reporting confidence 0.9 for every answered query
query_metta_only_confident_without_facts(q, ctx, o) ==
    IF o.kind = "none"
    THEN QueryResult(<<"MeTTa system not available">>, <<>>, <<>>, "metta", 0,
                     <<"MeTTa system not enabled or available">>, "none",
                     [error |-> "MeTTa not available"])
    ELSE IF o.kind = "raise"
    THEN QueryResult(<<"Error querying MeTTa system: ", o.msg>>, <<>>, <<>>, "metta",
                     0, <<"MeTTa query failed">>, "error", [error |-> o.msg])
    ELSE QueryResult(Join(<< <<"## MeTTa Knowledge Base Results">> >> \o FactLines(o.value)),
                     <<>>, o.value, "metta", METTA_CONFIDENCE,
                     <<"Used MeTTa knowledge base for precise facts">>, "metta",
                     [metta_details |->
                         [facts_found |-> Len(o.value), confidence |-> METTA_CONFIDENCE]])

\* _query_metta_only, given what the call of query_advanced_patterns did
\* (NoOutcome: the knowledge base is not available and no call is made)
query_metta_only(q, ctx, o) ==
    IF o.kind = "none"
    THEN QueryResult(<<"MeTTa system not available">>, <<>>, <<>>, "metta", 0,
                     <<"MeTTa system not enabled or available">>, "none",
                     [error |-> "MeTTa not available"])
    ELSE IF o.kind = "raise"
    THEN QueryResult(<<"Error querying MeTTa system: ", o.msg>>, <<>>, <<>>, "metta",
                     0, <<"MeTTa query failed">>, "error", [error |-> o.msg])
    ELSE LET metta_facts == o.value
             answer == IF metta_facts # <<>>
                       THEN Join(<< <<"## MeTTa Knowledge Base Results">> >>
                                 \o FactLines(metta_facts))
                       ELSE <<"No specific facts found in MeTTa knowledge base for this question.">>
             confidence == IF metta_facts # <<>> THEN METTA_CONFIDENCE ELSE 0
         IN QueryResult(answer, <<>>, metta_facts, "metta", confidence,
                        <<"Used MeTTa knowledge base for precise facts">>, "metta",
                        [metta_details |->
                            [facts_found |-> Len(metta_facts), confidence |-> confidence]])

\* An entry that always carries the number 1
SourceLine_unnumbered(i, source) ==
    <<"**", ToString(1), ". ", Get(source, "source", "Unknown"), "** (relevance: ",
      ToString(Get(source, "score", 0)), "%)">>

\* One entry of the "Documentation Sources" list
SourceLine(i, source) ==
    <<"**", ToString(i), ". ", Get(source, "source", "Unknown"), "** (relevance: ",
      ToString(Get(source, "score", 0)), "%)">>

\* _create_hybrid_answer; RaiseText when rag_result.answer is None (None.strip())
create_hybrid_answer(m, r) ==
    IF r.answer = NoneText THEN RaiseText
    ELSE LET rag_content == Strip(r.answer)
             shown == Take(r.sources, INTERFACE_SOURCE_CAP)
             response_parts ==
                 (IF m.answer # <<>> THEN <<m.answer>> ELSE <<>>)
                 \o (IF rag_content # <<>> /\ TextLen(rag_content) > CONTEXT_MIN_LEN
                     THEN << <<"\n---\n">>, <<"## Additional Context">>, rag_content >>
                     ELSE <<>>)
                 \o (IF r.sources # <<>>
                     THEN << <<"\n---\n">>, <<"## Documentation Sources">> >>
                          \o [i \in 1..Len(shown) |-> SourceLine(i, shown[i])]
                     ELSE <<>>)
         IN Join(response_parts)

SymbolicPrimary(m) == m.confidence > PRIMARY_THRESHOLD /\ m.facts # <<>>

Max(a, b) == IF a > b THEN a ELSE b

Raised == [query_type |-> "raise"]

\* _query_hybrid: the answer of either branch; RaiseText when building it raises
\* (None.strip() in _create_hybrid_answer, None += str in the else branch)
hybrid_answer_appending_always(m, r) ==
    IF SymbolicPrimary(m) THEN create_hybrid_answer(m, r)
    ELSE IF r.answer = NoneText THEN RaiseText
    ELSE r.answer \o <<"\n\n## Additional Facts\n">> \o m.answer

hybrid_answer(m, r) ==
    IF SymbolicPrimary(m) THEN create_hybrid_answer(m, r)
    ELSE IF m.facts # <<>>
         THEN (IF r.answer = NoneText THEN RaiseText
               ELSE r.answer \o <<"\n\n## Additional Facts\n">> \o m.answer)
         ELSE r.answer

\* _query_hybrid: the confidence of either branch
hybrid_confidence_symbolic_always(m, r) == m.confidence

hybrid_confidence_semantic_always(m, r) == r.confidence

\* A confidence that depends on whether the results were composed before
hybrid_confidence_lower_on_reuse(m, r) ==
    IF pc = "composed" THEN 0
    ELSE IF SymbolicPrimary(m) THEN Max(m.confidence, r.confidence) ELSE r.confidence

hybrid_confidence(m, r) ==
    IF SymbolicPrimary(m) THEN Max(m.confidence, r.confidence) ELSE r.confidence

\* _query_hybrid: the reasoning of either branch
hybrid_reasoning(m, r) ==
    IF SymbolicPrimary(m)
    THEN <<"Combined MeTTa facts (confidence: ", Fmt2(m.confidence),
           ") with RAG context">>
    ELSE <<"Used RAG as primary (confidence: ", Fmt2(r.confidence),
           "), MeTTa provided additional context">>

\* The body of the try block of _query_hybrid after both results exist;
\* Raised when an exception leaves it.
hybrid_combine(m, r) ==
    IF hybrid_answer(m, r) = RaiseText THEN Raised
    ELSE QueryResult(hybrid_answer(m, r), r.sources, m.facts, "hybrid",
                     hybrid_confidence(m, r), hybrid_reasoning(m, r), r.model_source,
                     [metta_details |-> Get(m.metadata, "metta_details", <<>>),
                      rag_details |-> Get(r.metadata, "rag_details", <<>>)])

(***************************************************************************)
(* The exposed entry points                                                *)
(***************************************************************************)
Vocabulary == {"What", "OAuth", "cache"}
\* Every question of at most two words of the vocabulary.
Questions ==
    {<<>>} \cup {<<a>> : a \in Vocabulary} \cup {<<a, b>> : a \in Vocabulary, b \in Vocabulary}
Contexts == {"", "ctx"}
StrategyStrings == {"auto", "rag", "metta", "hybrid", "Hybrid", "semantic"}

\* str.lower() of a strategy string
LowerStrategy(s) == IF s = "Hybrid" THEN "hybrid" ELSE s

\* query_for_agent: "Convert string to enum"
ToQueryType(s) ==
    IF LowerStrategy(s) = "rag" THEN "rag"
    ELSE IF LowerStrategy(s) = "metta" THEN "metta"
    ELSE IF LowerStrategy(s) = "hybrid" THEN "hybrid"
    ELSE "auto"

\* handle_question: the same conversion behind `if msg.query_type:`
ToQueryTypeOptional(s) == IF s # "" THEN ToQueryType(s) ELSE "auto"

StartQuery(q, s, c, qt) ==
    /\ pc = "idle"
    /\ system' = "interface"
    /\ question' = q
    /\ requested' = s
    /\ context' = c
    /\ requested_type' = qt
    /\ query_type' = qt
    /\ classifyCalls' = 0
    /\ mettaCalls' = 0
    /\ ragCalls' = 0
    /\ mettaOut' = NoOutcome
    /\ ragOut' = <<>>
    /\ metta_result' = NoResult
    /\ rag_result' = NoResult
    /\ executed' = ""
    /\ result' = NoResult
    /\ raised' = ""
    /\ UNCHANGED <<extVars, enable_metta, metta_kb>>

QueryForAgent ==
    \E q \in Questions, s \in StrategyStrings, c \in Contexts :
        /\ StartQuery(q, s, c, ToQueryType(s))
        /\ pc' = "query"

HandleQuestion ==
    \E q \in Questions, s \in StrategyStrings \cup {""}, c \in Contexts :
        /\ StartQuery(q, s, c, ToQueryTypeOptional(s))
        /\ pc' = "query"

(***************************************************************************)
(* AgentRAGInterface.query                                                 *)
(***************************************************************************)
\* query() detecting the type whatever the caller requested
QueryAlwaysDetects ==
    /\ pc = "query"
    /\ LET detected == detect_query_type(question, enable_metta)
       IN /\ query_type' = detected
          /\ classifyCalls' = classifyCalls + 1
          /\ pc' = IF detected = "rag" THEN "rag_only" ELSE "hybrid_metta"
    /\ UNCHANGED <<extVars, enable_metta, metta_kb, system, requested, question, context,
                   requested_type, mettaCalls, ragCalls, mettaOut, ragOut,
                   metta_result, rag_result, result, executed, raised>>

\* The head of query(): auto-detection and the dispatch on the query type.
Query ==
    /\ pc = "query"
    /\ LET detected == IF query_type = "auto"
                       THEN detect_query_type(question, enable_metta)
                       ELSE query_type
       IN /\ query_type' = detected
          /\ classifyCalls' = IF query_type = "auto" THEN classifyCalls + 1 ELSE classifyCalls
          /\ IF detected = "rag" THEN pc' = "rag_only" /\ raised' = raised
             ELSE IF detected = "metta" THEN pc' = "metta_only" /\ raised' = raised
             ELSE IF detected = "hybrid" THEN pc' = "hybrid_metta" /\ raised' = raised
             ELSE pc' = "done" /\ raised' = "ValueError"
    /\ UNCHANGED <<extVars, enable_metta, metta_kb, system, requested, question, context,
                   requested_type, mettaCalls, ragCalls, mettaOut, ragOut,
                   metta_result, rag_result, result, executed>>

\* query_type == RAG: result = self._query_rag_only(question, context)
RagOnly ==
    /\ pc = "rag_only"
    /\ executed' = "rag"
    /\ \E o \in RagOutcomes(question) :
        /\ ragOut' = Append(ragOut, o)
        /\ ragCalls' = ragCalls + 1
        /\ result' = query_rag_only(question, context, o)
    /\ pc' = "finish"
    /\ UNCHANGED <<extVars, enable_metta, metta_kb, system, requested, question, context,
                   query_type, requested_type, classifyCalls, mettaCalls,
                   mettaOut, metta_result, rag_result, raised>>

\* The outcomes open to _query_metta_only: no call when MeTTa is unavailable.
MettaCallOutcomes == IF MettaAvailable THEN MettaOutcomes(question) ELSE {NoOutcome}

\* query_type == METTA: result = self._query_metta_only(question, context)
MettaOnly ==
    /\ pc = "metta_only"
    /\ executed' = "metta"
    /\ \E o \in MettaCallOutcomes :
        /\ mettaOut' = o
        /\ mettaCalls' = IF o.kind = "none" THEN mettaCalls ELSE mettaCalls + 1
        /\ result' = query_metta_only(question, context, o)
    /\ pc' = "finish"
    /\ UNCHANGED <<extVars, enable_metta, metta_kb, system, requested, question, context,
                   query_type, requested_type, classifyCalls, ragCalls,
                   ragOut, metta_result, rag_result, raised>>

\* _query_hybrid: metta_result = self._query_metta_only(question, context)
HybridMetta ==
    /\ pc = "hybrid_metta"
    /\ executed' = "hybrid"
    /\ \E o \in MettaCallOutcomes :
        /\ mettaOut' = o
        /\ mettaCalls' = IF o.kind = "none" THEN mettaCalls ELSE mettaCalls + 1
        /\ metta_result' = query_metta_only(question, context, o)
    /\ pc' = "hybrid_rag"
    /\ UNCHANGED <<extVars, enable_metta, metta_kb, system, requested, question, context,
                   query_type, requested_type, classifyCalls, ragCalls,
                   ragOut, rag_result, result, raised>>

\* The semantic call left out once the symbolic call has failed
HybridRagSkippedAfterFailure ==
    /\ pc = "hybrid_rag"
    /\ IF mettaOut.kind = "raise"
       THEN /\ rag_result' = QueryResult(<<"No answer available">>, <<>>, <<>>, "rag", 0,
                                         <<"RAG query skipped">>, "none", <<>>)
            /\ UNCHANGED <<ragOut, ragCalls>>
       ELSE \E o \in RagOutcomes(question) :
               /\ ragOut' = Append(ragOut, o)
               /\ ragCalls' = ragCalls + 1
               /\ rag_result' = query_rag_only(question, context, o)
    /\ pc' = "hybrid_compose"
    /\ UNCHANGED <<extVars, enable_metta, metta_kb, system, requested, question, context,
                   query_type, requested_type, classifyCalls, mettaCalls,
                   mettaOut, metta_result, result, raised, executed>>

\* _query_hybrid: rag_result = self._query_rag_only(question, context)
HybridRag ==
    /\ pc = "hybrid_rag"
    /\ \E o \in RagOutcomes(question) :
        /\ ragOut' = Append(ragOut, o)
        /\ ragCalls' = ragCalls + 1
        /\ rag_result' = query_rag_only(question, context, o)
    /\ pc' = "hybrid_compose"
    /\ UNCHANGED <<extVars, enable_metta, metta_kb, system, requested, question, context,
                   query_type, requested_type, classifyCalls, mettaCalls,
                   mettaOut, metta_result, result, raised, executed>>

\* _query_hybrid: "Combine results intelligently" and build the QueryResult;
\* an exception sends control to the except clause.
HybridCompose ==
    /\ pc = "hybrid_compose"
    /\ LET combined == hybrid_combine(metta_result, rag_result)
       IN IF combined.query_type = "raise"
          THEN pc' = "hybrid_fallback" /\ result' = result
          ELSE pc' = "finish" /\ result' = combined
    /\ UNCHANGED <<extVars, enable_metta, metta_kb, system, requested, question, context,
                   query_type, requested_type, classifyCalls, mettaCalls, ragCalls,
                   mettaOut, ragOut, metta_result, rag_result, raised, executed>>

\* _query_hybrid, except clause: return self._query_rag_only(question, context)
HybridFallback ==
    /\ pc = "hybrid_fallback"
    /\ \E o \in RagOutcomes(question) :
        /\ ragOut' = Append(ragOut, o)
        /\ ragCalls' = ragCalls + 1
        /\ result' = query_rag_only(question, context, o)
    /\ pc' = "finish"
    /\ UNCHANGED <<extVars, enable_metta, metta_kb, system, requested, question, context,
                   query_type, requested_type, classifyCalls, mettaCalls,
                   mettaOut, metta_result, rag_result, raised, executed>>

\* The tail of query() dropping the citations while it adds the metadata
FinishDroppingSources ==
    /\ pc = "finish"
    /\ result' = [result EXCEPT
                    !.response_time = 1,
                    !.sources = <<>>,
                    !.metadata = [user_id |-> "user", context |-> context,
                                  timestamp |-> 1] @@ result.metadata]
    /\ pc' = "done"
    /\ UNCHANGED <<extVars, enable_metta, metta_kb, system, requested, question, context,
                   query_type, requested_type, classifyCalls, mettaCalls, ragCalls,
                   mettaOut, ragOut, metta_result, rag_result, raised, executed>>

\* The tail of query(): "Add timing and metadata", return result
Finish ==
    /\ pc = "finish"
    /\ result' = [result EXCEPT
                    !.response_time = 1,
                    !.metadata = [user_id |-> "user", context |-> context,
                                  timestamp |-> 1] @@ result.metadata]
    /\ pc' = "done"
    /\ UNCHANGED <<extVars, enable_metta, metta_kb, system, requested, question, context,
                   query_type, requested_type, classifyCalls, mettaCalls, ragCalls,
                   mettaOut, ragOut, metta_result, rag_result, raised, executed>>

(***************************************************************************)
(* AgnoHybridQASystem (app_agno_hybrid.py)                                 *)
(***************************************************************************)
AGNO_SOURCE_CAP == 5

agno_metta_patterns ==
    << <<"what", "error", "code">>,
       <<"what", "rate", "limit">>,
       <<"what", "parameters">>,
       <<"list", "endpoints">>,
       <<"what", "tier">>,
       <<"how", "many", "requests">>,
       <<"what", "authentication">>,
       <<"what", "endpoint", "supports">>,
       <<"what", "status", "code">>,
       <<"what", "slippage">>,
       <<"what", "gas">>,
       <<"what", "fee">> >>

RECURSIVE AgnoDetectFrom(_, _)
AgnoDetectFrom(i, question_lower) ==
    IF i > Len(agno_metta_patterns) THEN "rag"
    ELSE IF ReSearch(agno_metta_patterns[i], question_lower) THEN "metta"
    ELSE AgnoDetectFrom(i + 1, question_lower)

\* AgnoHybridQASystem.detect_query_type
agno_detect_query_type(q, enabled) ==
    IF ~enabled THEN "rag" ELSE AgnoDetectFrom(1, Lower(q))

\* The lines "* **a**: b" for the results that carry both keys
RECURSIVE PairLines(_, _, _)
PairLines(results, a, b) ==
    IF results = <<>> THEN <<>>
    ELSE (IF a \in DOMAIN Head(results) /\ b \in DOMAIN Head(results)
          THEN << <<"* **", Head(results)[a], "**: ", Head(results)[b]>> >>
          ELSE <<>>)
         \o PairLines(Tail(results), a, b)

FlowLine(r) ==
    IF Get(r, "category", "") = "security" /\ Get(r, "flow_type", "") # ""
    THEN (IF r.flow_type = "authorization_code"
          THEN << <<"* **Authorization Code Flow**: Standard OAuth 2.0 flow for web applications">> >>
          ELSE << <<"* **", r.flow_type, "**: OAuth 2.0 authentication flow">> >>)
    ELSE <<>>

RECURSIVE FlowLines(_)
FlowLines(results) ==
    IF results = <<>> THEN <<>> ELSE FlowLine(Head(results)) \o FlowLines(Tail(results))

PatternLine(r) ==
    IF "pattern" \in DOMAIN r THEN << <<"* **", r.pattern, "**">> >>
    ELSE IF "concept" \in DOMAIN r THEN << <<"* **", r.concept, "**">> >>
    ELSE <<>>

RECURSIVE PatternLines(_)
PatternLines(results) ==
    IF results = <<>> THEN <<>>
    ELSE PatternLine(Head(results)) \o PatternLines(Tail(results))

\* _format_metta_response, for the categories query_metta passes with results
format_metta_response(results, category) ==
    LET answer_parts ==
            CASE category = "errors" ->
                    << <<"## Error Codes and Handling">> >>
                    \o PairLines(results, "code", "description")
              [] category = "rate_limits" ->
                    << <<"## Rate Limiting Information">> >>
                    \o PairLines(results, "tier", "limit")
              [] OTHER ->
                    IF \E i \in 1..Len(results) :
                          \/ TokHas(LowerTok(Get(results[i], "pattern", "")), "oauth")
                          \/ TokHas(LowerTok(Get(results[i], "category", "")), "security")
                    THEN << <<"## OAuth Authentication Flows">>,
                            <<"The following OAuth 2.0 authentication flows are supported:">>,
                            <<>> >>
                         \o FlowLines(results)
                         \o << <<>>,
                               <<"Each flow provides different security characteristics.">> >>
                    ELSE << <<"## Advanced API Patterns">> >> \o PatternLines(results)
    IN [answer |-> Join(answer_parts), facts |-> results, source |-> "metta",
        confidence |-> METTA_CONFIDENCE,
        reasoning |-> <<"Used MeTTa knowledge base for ", category, " information">>]

RateLimitFacts ==
    { [endpoint |-> "/swap", limit |-> "100", period |-> "minute"] }

\* What the knowledge base answers to the category queries of query_metta.
AgnoKBs ==
    [ security : SeqsUpTo(SecurityFacts, MaxFacts),
      performance : SeqsUpTo(PerformanceFacts, MaxFacts),
      monitoring : SeqsUpTo(MonitoringFacts, MaxFacts),
      errors : SeqsUpTo(ErrorFacts, MaxFacts),
      rate_limits : SeqsUpTo(RateLimitFacts, MaxFacts) ]

\* The try block of query_metta over a knowledge base kb.  The fallback
\* queries for security, performance, monitoring and errors repeat queries
\* that query_advanced_patterns has already found empty.
agno_metta_lookup(q, kb) ==
    LET advanced_results == query_advanced_patterns(q, kb)
        question_lower == Lower(q)
    IN IF advanced_results # <<>>
       THEN format_metta_response(advanced_results, "advanced_patterns")
       ELSE IF AnyWord({"rate", "limit", "quota", "throttle"}, question_lower)
               /\ kb.rate_limits # <<>>
       THEN format_metta_response(kb.rate_limits, "rate_limits")
       ELSE [answer |-> <<"No specific MeTTa facts found for this question.">>,
             facts |-> <<>>, source |-> "metta", confidence |-> 0]

AgnoMettaOutcomes(q) ==
    {[kind |-> "raise", msg |-> m] : m \in ErrorMessages}
    \cup {[kind |-> "return", value |-> agno_metta_lookup(q, kb)] : kb \in AgnoKBs}

\* query_metta, given what the knowledge base did (NoOutcome: not consulted)
query_metta(q, o) ==
    IF o.kind = "none"
    THEN [answer |-> <<"MeTTa knowledge base is not available">>,
          facts |-> <<>>, source |-> "metta", confidence |-> 0]
    ELSE IF o.kind = "raise"
    THEN [answer |-> <<"MeTTa query failed: ", o.msg>>,
          facts |-> <<>>, source |-> "metta", confidence |-> 0]
    ELSE o.value

contradictory_phrases ==
    {"does not support oauth", "oauth is not supported", "no oauth flows",
     "does not have oauth", "oauth is not available", "does not mention oauth at all"}

topic_phrases == {"no oauth", "doesn't support oauth", "oauth not supported"}

AgnoSourceLines(i, source) ==
    << <<"**", ToString(i), ". ",
         IF Get(source, "file_path", "") # "" THEN source.file_path ELSE "Unknown",
         "** (relevance: ", ToString(Get(source, "score", 0)), "%)">> >>
    \o (IF Get(source, "heading", "") # ""
        THEN << <<"   Section: ", source.heading>> >> ELSE <<>>)

RECURSIVE AgnoSourceList(_, _)
AgnoSourceList(i, sources) ==
    IF sources = <<>> THEN <<>>
    ELSE AgnoSourceLines(i, Head(sources)) \o AgnoSourceList(i + 1, Tail(sources))

\* _create_hybrid_response; RaiseText when rag_result['answer'] is None
create_hybrid_response(m, r) ==
    IF Get(r, "answer", <<>>) = NoneText THEN RaiseText
    ELSE LET rag_content == Strip(Get(r, "answer", <<>>))
             rag_lower == Lower(rag_content)
             metta_answer == Lower(Get(m, "answer", <<>>))
             is_contradictory ==
                 \/ \E phrase \in contradictory_phrases : TextHas(rag_lower, phrase)
                 \/ /\ TextHas(metta_answer, "oauth")
                    /\ \E phrase \in topic_phrases : TextHas(rag_lower, phrase)
             response_parts ==
                 (IF Get(m, "answer", <<>>) # <<>> THEN <<m.answer>> ELSE <<>>)
                 \o (IF rag_content # <<>> /\ TextLen(rag_content) > CONTEXT_MIN_LEN
                     THEN (IF ~is_contradictory
                           THEN << <<"\n---\n">>, <<"## Additional Context">>, rag_content >>
                           ELSE << <<"\n---\n">>, <<"## Information Source">>,
                                   <<"The above information is based on structured knowledge base facts.">> >>)
                     ELSE <<>>)
                 \o (IF Get(r, "sources", <<>>) # <<>>
                     THEN << <<"\n---\n">>, <<"## Documentation Sources">>,
                             <<"The following documentation files were consulted:">> >>
                          \o AgnoSourceList(1, Take(r.sources, AGNO_SOURCE_CAP))
                          \o << <<>>, <<"*These sources provide additional context.*">> >>
                     ELSE <<>>)
         IN Join(response_parts)

\* AgnoHybridQASystem.query: the condition of the symbolic-primary branch
AgnoPrimary(m) ==
    m # NoResult /\ m.confidence > PRIMARY_THRESHOLD /\ m.facts # <<>>

\* AgnoHybridQASystem.query after both results exist (m = NoResult is None);
\* Raised when an exception leaves it.
agno_combine(m, r) ==
    IF AgnoPrimary(m)
    THEN LET composed == create_hybrid_response(m, r)
         IN IF composed = RaiseText THEN Raised
            ELSE [answer |-> composed, facts |-> m.facts,
                  sources |-> Get(r, "sources", <<>>), source |-> "hybrid",
                  confidence |-> m.confidence,
                  reasoning |-> <<"Combined MeTTa facts (confidence: ", Fmt2(m.confidence),
                                  ") with RAG context for comprehensive answer">>,
                  model_source |-> "fetchai",
                  context_used |-> Get(r, "context_used", 0),
                  metta_details |-> [facts_found |-> Len(m.facts),
                                     confidence |-> m.confidence],
                  rag_details |-> [sources_found |-> Len(Get(r, "sources", <<>>)),
                                   context_used |-> Get(r, "context_used", 0)]]
    ELSE IF m # NoResult
    THEN [reasoning |-> <<"MeTTa found limited results (confidence: ", Fmt2(m.confidence),
                          "), used RAG for comprehensive answer">>,
          metta_fallback |-> m] @@ r
    ELSE [reasoning |-> <<"Used RAG system for comprehensive answer (MeTTa not available)">>]
         @@ r

\* agno_hybrid_qa.query(question): detect_query_type, whose result is only printed
AgnoQuery ==
    /\ pc = "idle"
    /\ \E q \in Questions :
        /\ question' = q
        /\ query_type' = agno_detect_query_type(q, enable_metta)
    /\ system' = "agno"
    /\ classifyCalls' = classifyCalls + 1
    /\ pc' = "agno_metta"
    /\ UNCHANGED <<extVars, enable_metta, metta_kb, requested, context, requested_type,
                   mettaCalls, ragCalls, mettaOut, ragOut, metta_result,
                   rag_result, executed, result, raised>>

\* query: metta_result = self.query_metta(question) if self.metta_enabled
AgnoMetta ==
    /\ pc = "agno_metta"
    /\ IF enable_metta
       THEN \E o \in (IF metta_kb THEN AgnoMettaOutcomes(question) ELSE {NoOutcome}) :
               /\ mettaOut' = o
               /\ mettaCalls' = IF o.kind = "none" THEN mettaCalls ELSE mettaCalls + 1
               /\ metta_result' = query_metta(question, o)
       ELSE UNCHANGED <<mettaOut, mettaCalls, metta_result>>
    /\ pc' = "agno_rag"
    /\ UNCHANGED <<extVars, enable_metta, metta_kb, system, requested, question, context,
                   query_type, requested_type, classifyCalls, ragCalls, ragOut,
                   rag_result, executed, result, raised>>

\* query: rag_result = self.query_rag(question); an exception leaves query()
AgnoRag ==
    /\ pc = "agno_rag"
    /\ \E o \in RagOutcomes(question) :
        /\ ragOut' = Append(ragOut, o)
        /\ ragCalls' = ragCalls + 1
        /\ IF o.kind = "raise"
           THEN /\ raised' = "Exception"
                /\ pc' = "done"
                /\ rag_result' = rag_result
           ELSE /\ raised' = raised
                /\ pc' = "agno_compose"
                /\ rag_result' = o.value
    /\ UNCHANGED <<extVars, enable_metta, metta_kb, system, requested, question, context,
                   query_type, requested_type, classifyCalls, mettaCalls, mettaOut,
                   metta_result, executed, result>>

\* query: "Create hybrid response combining MeTTa facts with RAG context"
AgnoCompose ==
    /\ pc = "agno_compose"
    /\ LET combined == agno_combine(metta_result, rag_result)
       IN IF combined = Raised
          THEN raised' = "AttributeError" /\ result' = result
          ELSE raised' = raised /\ result' = combined
    /\ pc' = "done"
    /\ UNCHANGED <<extVars, enable_metta, metta_kb, system, requested, question, context,
                   query_type, requested_type, classifyCalls, mettaCalls, ragCalls,
                   mettaOut, ragOut, metta_result, rag_result, executed>>

\* The caller has its answer (or its exception); the interface is ready for
\* the next query.  Nothing of the finished query is kept but the instance.
Return ==
    /\ pc = "done"
    /\ pc' = "idle"
    /\ system' = ""
    /\ question' = <<>>
    /\ requested' = ""
    /\ context' = ""
    /\ requested_type' = "auto"
    /\ query_type' = "auto"
    /\ classifyCalls' = 0
    /\ mettaCalls' = 0
    /\ ragCalls' = 0
    /\ mettaOut' = NoOutcome
    /\ ragOut' = <<>>
    /\ metta_result' = NoResult
    /\ rag_result' = NoResult
    /\ executed' = ""
    /\ result' = NoResult
    /\ raised' = ""
    /\ UNCHANGED <<extVars, enable_metta, metta_kb>>

(***************************************************************************)
(* Symbolic citations: SimpleRAG._get_metta_citations (simple_rag.py) and  *)
(* _extract_metta_citations (mcp_server.py), and the "MeTTa Atom           *)
(* Citations" list both callers render from them.                          *)
(***************************************************************************)
SIMPLE_CITATION_CAP == 3    \* error_codes[:3], rate_limits[:3], endpoints[:3]
MCP_CITATION_CAP == 3       \* citations[:3]

ErrorCodeAtoms ==
    { [endpoint |-> "/swap", code |-> "400", description |-> "Bad Request"],
      [endpoint |-> "/swap", code |-> "404", description |-> "Not Found"] }
RateLimitAtoms == { [endpoint |-> "/swap", limit |-> "100", period |-> "minute"] }
EndpointAtoms == { "/swap" }

\* What the knowledge base of SimpleRAG answers: it is missing, a query
\* raises, or the three queries return their lists.
AtomKBs ==
    {[kind |-> "none"], [kind |-> "raise"]}
    \cup [ kind : {"return"},
           error_codes : SeqsUpTo(ErrorCodeAtoms, MaxAtoms),
           rate_limits : SeqsUpTo(RateLimitAtoms, MaxAtoms),
           endpoints : SeqsUpTo(EndpointAtoms, MaxAtoms) ]

CiteVocabulary == {"Errors", "rate", "api", "swap"}
CiteQuestions == SeqsUpTo(CiteVocabulary, 2)

\* The lines a reasoning text is made of: a section heading, an entry with
\* its pattern name, and entries that fell back to the default names.
ReasoningLineSet ==
    { <<"### ", "Security Patterns">>,
      <<"**", "1", ". ", "oauth", "**">>,
      <<"**", "1", ". ", "Security Pattern", "**">>,
      <<"**", "2", ". ", "Monitoring Concept", "**">> }

ErrorCitation(e) ==
    <<"Error code ", Get(e, "code", "N/A"), ": ", Get(e, "description", "N/A")>>
RateCitation(r) ==
    <<"Rate limit: ", Get(r, "limit", "N/A"), " requests per ", Get(r, "period", "N/A")>>
EndpointCitation(e) == <<"API endpoint: ", e>>

\* The citations of a list of atoms, one each, in the order of the list
ErrorCitations(xs) == [i \in 1..Len(xs) |-> ErrorCitation(xs[i])]
RateCitations(xs) == [i \in 1..Len(xs) |-> RateCitation(xs[i])]
EndpointCitations(xs) == [i \in 1..Len(xs) |-> EndpointCitation(xs[i])]

AsksErrors(q) == TextHas(Lower(q), "error") \/ TextHas(Lower(q), "exception")
AsksRates(q) == TextHas(Lower(q), "rate") \/ TextHas(Lower(q), "limit")
AsksEndpoints(q) == TextHas(Lower(q), "endpoint") \/ TextHas(Lower(q), "api")

\* SimpleRAG._get_metta_citations over the knowledge base kb
get_metta_citations(q, kb) ==
    IF kb.kind = "none" THEN <<>>
    ELSE IF kb.kind = "raise" THEN <<>>
    ELSE (IF AsksErrors(q)
          THEN ErrorCitations(Take(kb.error_codes, SIMPLE_CITATION_CAP)) ELSE <<>>)
         \o (IF AsksRates(q)
             THEN RateCitations(Take(kb.rate_limits, SIMPLE_CITATION_CAP)) ELSE <<>>)
         \o (IF AsksEndpoints(q)
             THEN EndpointCitations(Take(kb.endpoints, SIMPLE_CITATION_CAP)) ELSE <<>>)

\* line.split('**')[1].strip(): the text after the first '**', up to the next
BoldPart(line) ==
    LET first == CHOOSE i \in 1..Len(line) :
                     line[i] = "**" /\ \A j \in 1..(i - 1) : line[j] # "**"
        rest == SubSeq(line, first + 1, Len(line))
        ends == {i \in 1..Len(rest) : rest[i] = "**"}
        stop == IF ends = {} THEN Len(rest) + 1
                ELSE CHOOSE i \in ends : \A j \in ends : i <= j
    IN Strip(SubSeq(rest, 1, stop - 1))

\* pattern_name.split('. ', 1)[-1]
AfterNumbering(name) ==
    LET dots == {i \in 1..Len(name) : name[i] = ". "}
    IN IF dots = {} THEN name
       ELSE SubSeq(name, (CHOOSE i \in dots : \A j \in dots : i <= j) + 1, Len(name))

PatternKinds ==
    {"Security Pattern", "API Pattern", "Performance Pattern", "Monitoring Concept"}

\* The citation _extract_metta_citations takes from one line (<<>> if none)
LineCitation(line) ==
    IF TextHas(line, "**") /\ \E k \in PatternKinds : TextHas(line, k)
    THEN LET pattern_name == AfterNumbering(BoldPart(line))
         IN IF pattern_name # <<>> /\ TextLen(pattern_name) > 1
            THEN << <<"MeTTa Pattern: ">> \o pattern_name >>
            ELSE <<>>
    ELSE <<>>

RECURSIVE LineCitations(_)
LineCitations(lines) ==
    IF lines = <<>> THEN <<>>
    ELSE LineCitation(Head(lines)) \o LineCitations(Tail(lines))

\* mcp_server._extract_metta_citations
extract_metta_citations(lines) == Take(LineCitations(lines), MCP_CITATION_CAP)

\* One entry of the rendered list, linked by the category the citation names
CitationEntry(citation) ==
    IF TextHas(citation, "Error code")
    THEN <<"- [">> \o citation \o <<"](/documentation#error-codes)">>
    ELSE IF TextHas(citation, "Rate limit")
    THEN <<"- [">> \o citation \o <<"](/documentation#rate-limits)">>
    ELSE IF TextHas(citation, "API endpoint")
    THEN <<"- [">> \o citation \o <<"](/documentation#api-reference)">>
    ELSE <<"- ">> \o citation

CitationsIdle ==
    /\ cite_pc = "off"
    /\ cite_question = <<>>
    /\ atoms = [kind |-> "none"]
    /\ metta_reasoning = <<>>
    /\ metta_citations = <<>>
    /\ citation_lines = <<>>

NoFirstResult == [result |-> NoResult, raised |-> "none"]

OrderIdle ==
    /\ call_order = "symbolic_first"
    /\ planned = [metta |-> NoOutcome, rag |-> NoOutcome, fallback |-> NoOutcome]
    /\ first_result = NoFirstResult

Threads == {1, 2}

NoAgent == [id |-> 0, knowledge |-> 0]
NoBackend == [initialized |-> FALSE, knowledge |-> 0, rag_agent |-> NoAgent, init_runs |-> 0]
NoResponse == [content |-> NoneText, context |-> <<>>, agent |-> NoAgent]

\* No request thread is running.
ThreadsIdle ==
    /\ thread_pc = [t \in Threads |-> "off"]
    /\ thread_question = [t \in Threads |-> <<>>]
    /\ interface = [t \in Threads |-> 0]
    /\ response = [t \in Threads |-> NoResponse]
    /\ thread_result = [t \in Threads |-> NoResult]
    /\ agent_interface = 0
    /\ constructions = 0
    /\ backend = [i \in Threads |-> NoBackend]
    /\ last_search_results = [k \in Threads |-> <<>>]
    /\ tracks_results = FALSE

\* The documents table: no row, or the rows of one store_documents_in_db
\* run (stored_by names the run), with or without their embeddings.
NoDocuments == [count |-> 0, stored_by |-> <<0, 0>>, embedded |-> FALSE]

\* process_documents has not been called.
ProcessIdle ==
    /\ proc_pc = [t \in Threads |-> "off"]
    /\ proc_calls = [t \in Threads |-> 0]
    /\ proc_return = [t \in Threads |-> ""]
    /\ started_initialized = [t \in Threads |-> FALSE]
    /\ rag_system = 0
    /\ mcp_metta_kb = 0
    /\ processing_status = FALSE
    /\ metta_file = FALSE
    /\ documents = NoDocuments
    /\ metta_runs = 0
    /\ rag_runs = 0

ExtIdle == CitationsIdle /\ OrderIdle /\ ThreadsIdle /\ ProcessIdle

(***************************************************************************)
(* Specification                                                           *)
(***************************************************************************)
\* AgentRAGInterface.__init__: MeTTa is enabled with its knowledge base
\* loaded, or disabled (by configuration, or because loading failed).
Init ==
    /\ enable_metta \in BOOLEAN
    /\ metta_kb \in BOOLEAN
    /\ enable_metta => metta_kb
    /\ pc = "idle"
    /\ system = ""
    /\ question = <<>>
    /\ requested = ""
    /\ context = ""
    /\ requested_type = "auto"
    /\ query_type = "auto"
    /\ classifyCalls = 0
    /\ mettaCalls = 0
    /\ ragCalls = 0
    /\ mettaOut = NoOutcome
    /\ ragOut = <<>>
    /\ metta_result = NoResult
    /\ rag_result = NoResult
    /\ executed = ""
    /\ result = NoResult
    /\ raised = ""
    /\ ExtIdle

Next ==
    \/ QueryForAgent
    \/ HandleQuestion
    \/ Query
    \/ RagOnly
    \/ MettaOnly
    \/ HybridMetta
    \/ HybridRag
    \/ HybridCompose
    \/ HybridFallback
    \/ Finish
    \/ AgnoQuery
    \/ AgnoMetta
    \/ AgnoRag
    \/ AgnoCompose
    \/ Return

Spec == Init /\ [][Next]_vars


(***************************************************************************)
(* The classifier on its own: every question of up to MaxCLen tokens.      *)
(***************************************************************************)
ClassifyVocabulary == {"What", "OAuth", "gas", "vegas", "\n"}

InitClassify ==
    /\ enable_metta \in BOOLEAN
    /\ metta_kb = enable_metta
    /\ pc = "classify"
    /\ system = "interface"
    /\ question \in SeqsUpTo(ClassifyVocabulary, MaxCLen)
    /\ requested = "auto"
    /\ context = ""
    /\ requested_type = "auto"
    /\ query_type = "auto"
    /\ classifyCalls = 0
    /\ mettaCalls = 0
    /\ ragCalls = 0
    /\ mettaOut = NoOutcome
    /\ ragOut = <<>>
    /\ metta_result = NoResult
    /\ rag_result = NoResult
    /\ executed = ""
    /\ result = NoResult
    /\ raised = ""
    /\ ExtIdle

\* query_type = self._detect_query_type(question)
Classify ==
    /\ pc = "classify"
    /\ query_type' = detect_query_type(question, enable_metta)
    /\ classifyCalls' = classifyCalls + 1
    /\ pc' = "classified"
    /\ UNCHANGED <<extVars, enable_metta, metta_kb, system, requested, question, context,
                   requested_type, mettaCalls, ragCalls, mettaOut, ragOut,
                   metta_result, rag_result, executed, result, raised>>

NextClassify == Classify

SpecClassify == InitClassify /\ [][NextClassify]_vars

(***************************************************************************)
(* The composers on their own: both source results are given, the          *)
(* semantic one with up to MaxCites retrieved citations in any order, and  *)
(* the composition is run twice on them.                                   *)
(***************************************************************************)
ComposeQuestion == <<"OAuth">>

ComposeContents == { NoneText, <<"B101">> }

ComposeBackends ==
    {[kind |-> "no_knowledge"]}
    \cup {[kind |-> "ok", content |-> c, hits |-> h] :
            c \in ComposeContents, h \in SeqsUpTo(SourceSet, MaxCites)}

\* What self.agno_rag.query returned for the two results to compose
ComposeRagReturns ==
    {[kind |-> "return", value |-> agno_rag_query(ComposeQuestion, b)] :
        b \in ComposeBackends}

InitCompose ==
    /\ enable_metta = TRUE
    /\ metta_kb = TRUE
    /\ pc = "compose"
    /\ system \in {"interface", "agno"}
    /\ question = ComposeQuestion
    /\ requested = ""
    /\ context = ""
    /\ requested_type = "hybrid"
    /\ query_type = "hybrid"
    /\ classifyCalls = 0
    /\ mettaCalls = 1
    /\ ragCalls = 1
    /\ mettaOut \in (IF system = "interface" THEN MettaOutcomes(question)
                     ELSE AgnoMettaOutcomes(question))
    /\ ragOut \in {<<o>> : o \in ComposeRagReturns}
    /\ metta_result = (IF system = "interface"
                       THEN query_metta_only(question, context, mettaOut)
                       ELSE query_metta(question, mettaOut))
    /\ rag_result = (IF system = "interface"
                     THEN query_rag_only(question, context, ragOut[1])
                     ELSE ragOut[1].value)
    /\ executed = "hybrid"
    /\ result = NoResult
    /\ raised = ""
    /\ ExtIdle

\* One run of the composition on the two results: the try block of
\* _query_hybrid with its except clause, or the tail of AgnoHybridQASystem.query.
ComposeEffect ==
    /\ IF system = "interface"
       THEN LET combined == hybrid_combine(metta_result, rag_result)
            IN IF combined = Raised
               THEN \E o \in RagOutcomes(question) :
                       /\ ragOut' = Append(ragOut, o)
                       /\ ragCalls' = ragCalls + 1
                       /\ result' = query_rag_only(question, context, o)
                       /\ raised' = ""
               ELSE /\ result' = combined
                    /\ raised' = ""
                    /\ UNCHANGED <<ragOut, ragCalls>>
       ELSE LET combined == agno_combine(metta_result, rag_result)
            IN /\ IF combined = Raised
                  THEN raised' = "AttributeError" /\ result' = NoResult
                  ELSE raised' = "" /\ result' = combined
               /\ UNCHANGED <<ragOut, ragCalls>>
    /\ UNCHANGED <<extVars, enable_metta, metta_kb, system, requested, question, context,
                   query_type, requested_type, classifyCalls, mettaCalls, mettaOut,
                   metta_result, rag_result, executed>>

\* The composition of the two results
Compose ==
    /\ pc = "compose"
    /\ pc' = "composed"
    /\ ComposeEffect

\* The composition of the same two results once more
Recompose ==
    /\ pc = "composed"
    /\ pc' = "recomposed"
    /\ ComposeEffect

NextCompose ==
    \/ Compose
    \/ Recompose

SpecCompose == InitCompose /\ [][NextCompose]_vars

(***************************************************************************)
(* Properties                                                              *)
(***************************************************************************)
MatchesFactIntent(q) ==
    \E i \in 1..Len(metta_patterns) : ReSearch(metta_patterns[i], Lower(q))

\* C1: with strategy auto the classifier returns hybrid exactly for the
\* questions whose lower-cased text matches a fact-intent pattern while MeTTa
\* is enabled, and rag for every other question; never metta, never auto.
C1_ClassifierHybridOrRag ==
    pc = "classified" =>
        /\ query_type \in {"hybrid", "rag"}
        /\ query_type = "hybrid" <=> (enable_metta /\ MatchesFactIntent(question))

\* A question that matches the pattern "gas" inside "vegas", classified hybrid.
C1_Witness ==
    /\ pc = "classified"
    /\ query_type = "hybrid"
    /\ question = <<"What", "vegas">>

\* C2: a query called with a type other than auto never runs the classifier
\* and executes exactly the requested strategy.
C2_ExplicitStrategyBypassesClassifier ==
    (requested_type # "auto" /\ pc \notin {"idle", "query"}) =>
        /\ classifyCalls = 0
        /\ query_type = requested_type
        /\ executed \in {"", requested_type}
        /\ pc \in {"finish", "done"} => executed = requested_type

\* A question the classifier would send to rag, executed as hybrid on request.
C2_Witness ==
    /\ pc = "done"
    /\ requested_type = "hybrid"
    /\ executed = "hybrid"
    /\ detect_query_type(question, enable_metta) = "rag"
    /\ classifyCalls = 0


InterfaceHybridDone ==
    system = "interface" /\ executed = "hybrid" /\ pc = "done"

AgnoDone == system = "agno" /\ pc = "done" /\ ragOut[Len(ragOut)].kind = "return"

\* C3 (as claimed): in a hybrid query whose symbolic result has confidence
\* above 0.5 and at least one fact, the query returns a result whose
\* confidence is the symbolic confidence, whatever the semantic result is.
C3_SymbolicPrimaryConfidence ==
    /\ (InterfaceHybridDone /\ SymbolicPrimary(metta_result)) =>
          /\ raised = ""
          /\ result.confidence = metta_result.confidence
    /\ (AgnoDone /\ AgnoPrimary(metta_result)) =>
          /\ raised = ""
          /\ result.confidence = metta_result.confidence

\* C4: in a hybrid query whose symbolic result has confidence at most 0.5 or
\* no fact, the composed confidence is the semantic result's confidence (in
\* the Agno system neither the semantic result nor the composed one has one).
C4_SemanticPrimaryConfidence ==
    /\ (InterfaceHybridDone /\ ~SymbolicPrimary(metta_result)) =>
          /\ raised = ""
          /\ result.query_type = "hybrid"
          /\ result.confidence = rag_result.confidence
    /\ (AgnoDone /\ ~AgnoPrimary(metta_result)) =>
          /\ raised = ""
          /\ ("confidence" \in DOMAIN result) = ("confidence" \in DOMAIN rag_result)

\* A hybrid query answered from the semantic source at its confidence 0.8.
C4_Witness ==
    /\ InterfaceHybridDone
    /\ mettaOut.kind = "return"
    /\ ~SymbolicPrimary(metta_result)
    /\ rag_result.confidence = RAG_CONFIDENCE
    /\ result.confidence = RAG_CONFIDENCE

\* C5: every composed hybrid result has the confidence max(symbolic, semantic)
\* when the symbolic source is primary and the semantic confidence otherwise;
\* it is always the confidence of one of the two sources.
C5_HybridConfidenceFromSources ==
    /\ (system = "interface" /\ pc \in {"finish", "done"} /\ result.query_type = "hybrid") =>
          /\ result.confidence =
                IF SymbolicPrimary(metta_result)
                THEN Max(metta_result.confidence, rag_result.confidence)
                ELSE rag_result.confidence
          /\ result.confidence \in {metta_result.confidence, rag_result.confidence}
    /\ (AgnoDone /\ raised = "" /\ "confidence" \in DOMAIN result) =>
          /\ AgnoPrimary(metta_result)
          /\ result.confidence = metta_result.confidence

\* A symbolic-primary result at 0.9 over a semantic result at 0.8.
C5_Witness ==
    /\ InterfaceHybridDone
    /\ result.query_type = "hybrid"
    /\ SymbolicPrimary(metta_result)
    /\ rag_result.confidence = RAG_CONFIDENCE
    /\ result.confidence = METTA_CONFIDENCE

\* The semantic text denies OAuth support in so many words.
DeniesOAuth(text) == text # NoneText /\ TextHas(Lower(text), "oauth is not supported")

\* The symbolic answer is about OAuth.
AssertsOAuth(text) == TextHas(Lower(text), "oauth")

\* C6 (as claimed): in a symbolic-primary hybrid answer whose symbolic answer
\* asserts OAuth and whose semantic text says that OAuth is not supported, the
\* semantic text does not appear verbatim in the composed answer.
C6_ContradictionSuppressed ==
    /\ (InterfaceHybridDone /\ result.query_type = "hybrid"
        /\ SymbolicPrimary(metta_result)
        /\ AssertsOAuth(metta_result.answer) /\ DeniesOAuth(rag_result.answer)) =>
          ~IsInfix(Strip(rag_result.answer), result.answer)
    /\ (AgnoDone /\ raised = "" /\ AgnoPrimary(metta_result)
        /\ AssertsOAuth(metta_result.answer) /\ DeniesOAuth(rag_result.answer)) =>
          ~IsInfix(Strip(rag_result.answer), result.answer)

\* The semantic collaborator failed: its call raised, or it caught its own
\* failure and returned the error as its answer.
SemanticFailed(o) == o.kind = "raise" \/ "error" \in DOMAIN o.value

\* C7 (as claimed): a hybrid query in which both collaborators fail returns a
\* result with confidence 0.0 and a non-empty answer; no exception escapes.
C7_BothFailedZeroConfidence ==
    (InterfaceHybridDone /\ mettaOut.kind = "raise" /\ SemanticFailed(ragOut[1])) =>
        /\ raised = ""
        /\ result.confidence = 0
        /\ result.answer \notin {<<>>, NoneText}

ExactlyOneRaised ==
    /\ InterfaceHybridDone
    /\ Len(ragOut) = 1
    /\ mettaOut.kind \in {"raise", "return"}
    /\ (mettaOut.kind = "raise") # (ragOut[1].kind = "raise")

\* The result of the source whose call raised, and of the one that returned
FailedResult == IF mettaOut.kind = "raise" THEN metta_result ELSE rag_result
SurvivingResult == IF mettaOut.kind = "raise" THEN rag_result ELSE metta_result

FailureSubstituted ==
    /\ raised = ""
    /\ result.query_type = "hybrid"
    /\ FailedResult.confidence = 0
    /\ \E m \in ErrorMessages : IsInfix(<<m>>, FailedResult.answer)
    /\ result.confidence = SurvivingResult.confidence

ValidStrategies == {"auto", "rag", "metta", "hybrid"}

\* C9 (as claimed): a strategy string that is none of auto, rag, metta and
\* hybrid is rejected: no strategy is executed for it, no collaborator is
\* called, and the caller gets an error.
C9_InvalidStrategyRejected ==
    (system = "interface" /\ requested # ""
     /\ LowerStrategy(requested) \notin ValidStrategies) =>
        /\ executed = ""
        /\ ragCalls = 0 /\ mettaCalls = 0
        /\ pc = "done" => raised # ""

AdditionalFacts == "\n\n## Additional Facts\n"

\* C10: when the symbolic source is not primary, the composed answer is the
\* semantic answer, followed by the "Additional Facts" section with the
\* symbolic answer exactly when the symbolic source has a fact; without facts
\* it is the semantic answer alone.
C10_SemanticPrimaryAnswer ==
    (system = "interface" /\ pc \in {"finish", "done"} /\ executed = "hybrid"
     /\ ~SymbolicPrimary(metta_result)) =>
        /\ result.query_type = "hybrid"
        /\ IF metta_result.facts # <<>>
           THEN result.answer = rag_result.answer \o <<AdditionalFacts>> \o metta_result.answer
           ELSE /\ result.answer = rag_result.answer
                /\ ~IsInfix(<<AdditionalFacts>>, result.answer)

\* No symbolic fact, a semantic answer at 0.8: the composed answer is that answer.
C10_Witness ==
    /\ InterfaceHybridDone
    /\ mettaOut.kind = "return"
    /\ metta_result.facts = <<>>
    /\ rag_result.answer = <<"B101">>
    /\ result.answer = <<"B101">>
    /\ result.confidence = RAG_CONFIDENCE

StartsWith(prefix, text) ==
    Len(prefix) <= Len(text) /\ SubSeq(text, 1, Len(prefix)) = prefix

\* The semantic text set under its heading by either composer
ContextSection(r) == <<"## Additional Context", "\n">> \o Strip(r.answer)

\* The semantic text is flagged by _create_hybrid_response: it holds a
\* deny-listed phrase, or a topic phrase while the symbolic answer is on OAuth.
AgnoFlagged(m, r) ==
    LET rag_lower == Lower(Strip(r.answer))
    IN \/ \E p \in contradictory_phrases : TextHas(rag_lower, p)
       \/ /\ TextHas(Lower(m.answer), "oauth")
          /\ \E p \in topic_phrases : TextHas(rag_lower, p)

InterfacePrimaryAnswer ==
    /\ InterfaceHybridDone
    /\ result.query_type = "hybrid"
    /\ SymbolicPrimary(metta_result)

AgnoPrimaryAnswer ==
    AgnoDone /\ raised = "" /\ AgnoPrimary(metta_result)

\* C11: a symbolic-primary hybrid answer starts with the symbolic answer and
\* holds the semantic text under "Additional Context" exactly when the
\* stripped semantic text is longer than 100 characters and is not flagged as
\* contradicting (the interface composer flags nothing); a text of 100
\* characters or fewer is never included.
C11_AdditionalContextThreshold ==
    /\ InterfacePrimaryAnswer =>
          /\ StartsWith(metta_result.answer, result.answer)
          /\ IsInfix(<<"## Additional Context">>, result.answer)
                <=> TextLen(Strip(rag_result.answer)) > 100
          /\ TextLen(Strip(rag_result.answer)) > 100
                => IsInfix(ContextSection(rag_result), result.answer)
    /\ AgnoPrimaryAnswer =>
          /\ StartsWith(metta_result.answer, result.answer)
          /\ IsInfix(<<"## Additional Context">>, result.answer)
                <=> (TextLen(Strip(rag_result.answer)) > 100
                     /\ ~AgnoFlagged(metta_result, rag_result))
          /\ (TextLen(Strip(rag_result.answer)) > 100
              /\ ~AgnoFlagged(metta_result, rag_result))
                => IsInfix(ContextSection(rag_result), result.answer)

\* A semantic text of exactly 100 characters after stripping is left out.
C11_Witness ==
    /\ InterfacePrimaryAnswer
    /\ rag_result.answer = <<" ", "B100", " ">>
    /\ ~IsInfix(<<"## Additional Context">>, result.answer)
    /\ StartsWith(metta_result.answer, result.answer)

\* The positions of the citation entries in a composed answer
RelevanceAt(answer) ==
    SelectSeq([i \in 1..Len(answer) |-> i], LAMBDA i : answer[i] = "** (relevance: ")

\* The numbers, names and scores the citation entries show, in their order
RenderedNumbers(answer) ==
    [k \in 1..Len(RelevanceAt(answer)) |-> answer[RelevanceAt(answer)[k] - 3]]

RenderedNames(answer) ==
    [k \in 1..Len(RelevanceAt(answer)) |-> answer[RelevanceAt(answer)[k] - 1]]

RenderedScores(answer) ==
    [k \in 1..Len(RelevanceAt(answer)) |-> answer[RelevanceAt(answer)[k] + 1]]

ScoreValue(tok) == CHOOSE n \in 0..100 : ToString(n) = tok

NonIncreasing(scores) ==
    \A i, j \in 1..Len(scores) : i < j => ScoreValue(scores[i]) >= ScoreValue(scores[j])

\* A symbolic-primary answer has been composed from the two given results
PrimaryComposed ==
    /\ pc \in {"composed", "recomposed"}
    /\ raised = ""
    /\ IF system = "interface"
       THEN result.query_type = "hybrid" /\ SymbolicPrimary(metta_result)
       ELSE AgnoPrimary(metta_result)

CitationCap == IF system = "interface" THEN INTERFACE_SOURCE_CAP ELSE AGNO_SOURCE_CAP

\* C12 (as claimed): the citations rendered in a composed answer are at most
\* the configured maximum (3 in the interface, 5 in the Agno system) and
\* appear in non-increasing order of relevance score, for every list of
\* citations the semantic collaborator returns.
C12_CitationsCappedAndOrdered ==
    PrimaryComposed =>
        /\ Len(RelevanceAt(result.answer)) <= CitationCap
        /\ NonIncreasing(RenderedScores(result.answer))

\* C13: when the semantic source returns n citations, n not above the cap, a
\* symbolic-primary answer lists exactly n entries, numbered 1..n, entry i
\* showing the score of citation i (and, in the interface, its name).
C13_OneEntryPerCitation ==
    (PrimaryComposed /\ Len(rag_result.sources) <= CitationCap) =>
        LET n == Len(rag_result.sources)
        IN /\ Len(RelevanceAt(result.answer)) = n
           /\ RenderedNumbers(result.answer) = [i \in 1..n |-> ToString(i)]
           /\ RenderedScores(result.answer)
                = [i \in 1..n |-> ToString(rag_result.sources[i].score)]
           /\ system = "interface" =>
                RenderedNames(result.answer) = [i \in 1..n |-> rag_result.sources[i].source]

\* Two citations in, entries 1 and 2 out.
C13_Witness ==
    /\ PrimaryComposed
    /\ system = "interface"
    /\ Len(rag_result.sources) = 2
    /\ RenderedNumbers(result.answer) = <<"1", "2">>
    /\ RenderedNames(result.answer) = <<"limits.md", "auth.md">>

C15_NoFactsIsNormal ==
    (system = "interface" /\ executed = "metta" /\ pc \in {"finish", "done"}
     /\ mettaOut.kind = "return" /\ mettaOut.value = <<>>) =>
        /\ raised = ""
        /\ result.query_type = "metta"
        /\ result.confidence = 0
        /\ result.facts = <<>>
        /\ result.answer = <<"No specific facts found in MeTTa knowledge base for this question.">>
        /\ result.model_source # "error"
        /\ "error" \notin DOMAIN result.metadata

\* A finished symbolic-only query over a knowledge base without a match.
C15_Witness ==
    /\ system = "interface"
    /\ pc = "done"
    /\ executed = "metta"
    /\ mettaCalls = 1
    /\ mettaOut = [kind |-> "return", value |-> <<>>]
    /\ result.confidence = 0
    /\ result.model_source = "metta"

\* C16: a semantic-only query calls the semantic collaborator exactly once,
\* and whenever that call returns its result has confidence 0.8, whatever
\* the collaborator returned (an answer, no answer, or its own error report).
C16_SemanticOnlyFixedConfidence ==
    (system = "interface" /\ executed = "rag" /\ pc \in {"finish", "done"}) =>
        /\ ragCalls = 1
        /\ Len(ragOut) = 1
        /\ mettaCalls = 0
        /\ ragOut[1].kind = "return" =>
              /\ raised = ""
              /\ result.query_type = "rag"
              /\ result.confidence = 80

\* The collaborator returned its own error report; the result stands at 0.8.
C16_Witness ==
    /\ system = "interface"
    /\ pc = "done"
    /\ executed = "rag"
    /\ ragCalls = 1
    /\ ragOut[1].kind = "return"
    /\ "error" \in DOMAIN ragOut[1].value
    /\ result.confidence = 80

\* The result of the single source of a semantic-only or symbolic-only query
SingleSourceResult ==
    IF executed = "rag" THEN query_rag_only(question, context, ragOut[1])
    ELSE query_metta_only(question, context, mettaOut)

\* The reasoning texts that name the semantic source, and the symbolic one
SemanticReasonings ==
    { <<"Used RAG system for comprehensive answer">>, <<"RAG query failed">> }

SymbolicReasonings ==
    { <<"Used MeTTa knowledge base for precise facts">>, <<"MeTTa query failed">>,
      <<"MeTTa system not enabled or available">> }

QueryMetadataKeys == {"user_id", "context", "timestamp"}

\* C17: the result query returns for a semantic-only or symbolic-only query
\* has the answer, confidence, sources, facts and reasoning of that source's
\* result, the reasoning names that source, and query has changed nothing but
\* response_time and the user_id, context and timestamp entries of metadata.
C17_SingleSourcePassedThrough ==
    (system = "interface" /\ executed \in {"rag", "metta"} /\ pc = "done") =>
        /\ raised = ""
        /\ result.answer = SingleSourceResult.answer
        /\ result.confidence = SingleSourceResult.confidence
        /\ result.sources = SingleSourceResult.sources
        /\ result.facts = SingleSourceResult.facts
        /\ result.query_type = executed
        /\ result.model_source = SingleSourceResult.model_source
        /\ result.reasoning = SingleSourceResult.reasoning
        /\ result.reasoning \in (IF executed = "rag" THEN SemanticReasonings
                                 ELSE SymbolicReasonings)
        /\ DOMAIN result.metadata = DOMAIN SingleSourceResult.metadata \cup QueryMetadataKeys
        /\ \A k \in DOMAIN SingleSourceResult.metadata \ QueryMetadataKeys :
              result.metadata[k] = SingleSourceResult.metadata[k]

\* A finished semantic-only query that hands on the answer and its citation.
C17_Witness ==
    /\ system = "interface"
    /\ pc = "done"
    /\ executed = "rag"
    /\ result.answer = <<"B101">>
    /\ Len(result.sources) = 1
    /\ result.response_time = 1
    /\ result.metadata.user_id = "user"

\* The reasoning text shows the confidence c in the format of the code
ShowsConfidence(reasoning, c) == IsInfix(<<Fmt2(c)>>, reasoning)

NamesBothSources(reasoning) == TextHas(reasoning, "MeTTa") /\ TextHas(reasoning, "RAG")

\* C18 (as claimed): the reasoning text of every hybrid result, symbolic
\* primary or semantic primary, names both sources and shows both the
\* symbolic and the semantic confidence.
C18_ReasoningShowsBothConfidences ==
    (system = "interface" /\ pc \in {"finish", "done"} /\ result.query_type = "hybrid") =>
        /\ NamesBothSources(result.reasoning)
        /\ ShowsConfidence(result.reasoning, metta_result.confidence)
        /\ ShowsConfidence(result.reasoning, rag_result.confidence)

\* C19 (as claimed): composing never raises: whatever the two source results
\* are, a null semantic answer text included, each system returns a composed
\* result, and the Agno system takes a missing symbolic result for one of
\* confidence 0.0 without facts (the semantic result is returned).
C19_ComposerNeverRaises ==
    /\ InterfaceHybridDone =>
          /\ raised = ""
          /\ result.query_type = "hybrid"
          /\ ragCalls = 1
    /\ AgnoDone =>
          /\ raised = ""
          /\ result # NoResult
          /\ metta_result = NoResult => result.answer = rag_result.answer

C25_UnmatchedAutoIsSemanticOnly ==
    /\ (system = "interface" /\ requested_type = "auto" /\ pc # "query"
        /\ ~MatchesFactIntent(question)) =>
          /\ mettaCalls = 0
          /\ pc = "done" => (raised = "" /\ result.facts = <<>>)
    /\ (system = "agno" /\ AgnoDetectFrom(1, Lower(question)) = "rag") =>
          /\ mettaCalls = 0
          /\ (pc = "done" /\ raised = "") => Get(result, "facts", <<>>) = <<>>

\* C26 (as claimed): when the symbolic answer does not mention OAuth, a
\* semantic text longer than 100 characters is included under "Additional
\* Context" even if it holds a deny-listed phrase about OAuth.
C26_ContradictionOnlyOnAssertedTopic ==
    (AgnoPrimaryAnswer /\ ~AssertsOAuth(metta_result.answer)
     /\ TextLen(Strip(rag_result.answer)) > CONTEXT_MIN_LEN) =>
        /\ IsInfix(ContextSection(rag_result), result.answer)
        /\ ~IsInfix(<<"## Information Source">>, result.answer)

\* The symbolic result of the interface is in hand.
InterfaceSymbolicResult ==
    IF system = "interface" /\ executed = "metta" /\ pc \in {"finish", "done"}
    THEN result
    ELSE IF system = "interface" /\ executed = "hybrid"
    THEN metta_result
    ELSE NoResult

\* C27: a symbolic result of _query_metta_only has facts exactly when its
\* confidence is 0.9, and confidence 0.0 otherwise; so a hybrid answer composed
\* with the semantic source as primary has no symbolic fact and no
\* "Additional Facts" section.
C27_FactsIffConfident ==
    /\ InterfaceSymbolicResult # NoResult =>
          /\ InterfaceSymbolicResult.facts # <<>>
                <=> InterfaceSymbolicResult.confidence = METTA_CONFIDENCE
          /\ InterfaceSymbolicResult.facts = <<>>
                => InterfaceSymbolicResult.confidence = 0
    /\ (system = "interface" /\ executed = "hybrid" /\ pc \in {"finish", "done"}
        /\ ~SymbolicPrimary(metta_result)) =>
          /\ metta_result.facts = <<>>
          /\ ~IsInfix(<<AdditionalFacts>>, result.answer)

\* The knowledge base answered with no fact: confidence 0.0, and the hybrid
\* answer is the semantic answer without an "Additional Facts" section.
C27_Witness ==
    /\ InterfaceHybridDone
    /\ mettaOut.kind = "return"
    /\ metta_result.facts = <<>>
    /\ metta_result.confidence = 0
    /\ result.answer = rag_result.answer
    /\ result.answer = <<"B80", "OAuth is NOT supported">>

\* C28 (as claimed): a query that executed the hybrid strategy returns a
\* result labelled hybrid, also when a collaborator or the composition fails.
C28_HybridLabelledHybrid ==
    InterfaceHybridDone =>
        /\ raised = ""
        /\ result.query_type = "hybrid"

(***************************************************************************)
(* The symbolic citations on their own: the question and the knowledge     *)
(* base (SimpleRAG.query), or the reasoning text (mcp_server), are given;  *)
(* the citations are collected and the list is rendered.                   *)
(***************************************************************************)
\* No query is in flight in the interface.
QueryIdle ==
    /\ enable_metta = TRUE
    /\ metta_kb = TRUE
    /\ pc = "idle"
    /\ system = ""
    /\ question = <<>>
    /\ requested = ""
    /\ context = ""
    /\ requested_type = "auto"
    /\ query_type = "auto"
    /\ classifyCalls = 0
    /\ mettaCalls = 0
    /\ ragCalls = 0
    /\ mettaOut = NoOutcome
    /\ ragOut = <<>>
    /\ metta_result = NoResult
    /\ rag_result = NoResult
    /\ executed = ""
    /\ result = NoResult
    /\ raised = ""

\* The variables outside the citation rendering
exceptCite == <<queryVars, orderVars, threadVars, procVars>>

InitCitations ==
    /\ QueryIdle
    /\ \/ /\ cite_pc = "simple_rag"
          /\ cite_question \in CiteQuestions
          /\ atoms \in AtomKBs
          /\ metta_reasoning = <<>>
       \/ /\ cite_pc = "mcp"
          /\ cite_question = <<>>
          /\ atoms = [kind |-> "none"]
          /\ metta_reasoning \in SeqsUpTo(ReasoningLineSet, MaxAtoms) \ {<<>>}
    /\ metta_citations = <<>>
    /\ citation_lines = <<>>
    /\ OrderIdle
    /\ ThreadsIdle
    /\ ProcessIdle

\* SimpleRAG.query: metta_citations = self._get_metta_citations(question)
GetMettaCitations ==
    /\ cite_pc = "simple_rag"
    /\ metta_citations' = get_metta_citations(cite_question, atoms)
    /\ cite_pc' = "render"
    /\ UNCHANGED <<exceptCite, cite_question, atoms, metta_reasoning, citation_lines>>

\* mcp_server: metta_citations = _extract_metta_citations(metta_reasoning)
ExtractMettaCitations ==
    /\ cite_pc = "mcp"
    /\ metta_citations' = extract_metta_citations(metta_reasoning)
    /\ cite_pc' = "render"
    /\ UNCHANGED <<exceptCite, cite_question, atoms, metta_reasoning, citation_lines>>

\* for citation in metta_citations: one entry of "MeTTa Atom Citations" each
RenderAtomCitations ==
    /\ cite_pc = "render"
    /\ citation_lines' = [i \in 1..Len(metta_citations) |-> CitationEntry(metta_citations[i])]
    /\ cite_pc' = "rendered"
    /\ UNCHANGED <<exceptCite, cite_question, atoms, metta_reasoning, metta_citations>>

NextCitations ==
    \/ GetMettaCitations
    \/ ExtractMettaCitations
    \/ RenderAtomCitations

SpecCitations == InitCitations /\ [][NextCitations]_vars

\* The citations the symbolic collaborator produced for the question, in the
\* order of their production.
ProducedCitations ==
    IF metta_reasoning # <<>> THEN LineCitations(metta_reasoning)
    ELSE IF atoms.kind # "return" THEN <<>>
    ELSE (IF AsksErrors(cite_question)
          THEN ErrorCitations(atoms.error_codes) ELSE <<>>)
         \o (IF AsksRates(cite_question)
             THEN RateCitations(atoms.rate_limits) ELSE <<>>)
         \o (IF AsksEndpoints(cite_question)
             THEN EndpointCitations(atoms.endpoints) ELSE <<>>)

\* The citation shown by each rendered entry
RenderedCitations ==
    [i \in 1..Len(citation_lines) |->
        SelectSeq(citation_lines[i],
                  LAMBDA t : t \notin {"- [", "- ", "](/documentation#error-codes)",
                                       "](/documentation#rate-limits)",
                                       "](/documentation#api-reference)"})]

\* C21 (as claimed): the rendered "Atom Citations" list holds at most 3
\* entries in total, and they are the first of the produced citations in
\* the order of their production.
C21_CitationsCappedInOrder ==
    cite_pc = "rendered" =>
        /\ Len(citation_lines) <= 3
        /\ RenderedCitations = Take(ProducedCitations, 3)

(***************************************************************************)
(* The two collaborator calls of a hybrid query in either order.  The      *)
(* code issues the symbolic call first; the statements                     *)
(*     metta_result = self._query_metta_only(question, context)            *)
(*     rag_result = self._query_rag_only(question, context)                *)
(* are run here first in that order and then exchanged, against            *)
(* collaborators that answer the same way both times.                      *)
(***************************************************************************)
\* The variables outside the query and the order of its calls
exceptOrder == <<citeVars, threadVars, procVars>>

InitOrder ==
    /\ enable_metta = TRUE
    /\ metta_kb = TRUE
    /\ pc = "order_calls"
    /\ system \in {"interface", "agno"}
    /\ question = ComposeQuestion
    /\ requested = ""
    /\ context = ""
    /\ requested_type = "hybrid"
    /\ query_type = "hybrid"
    /\ classifyCalls = 0
    /\ mettaCalls = 0
    /\ ragCalls = 0
    /\ mettaOut = NoOutcome
    /\ ragOut = <<>>
    /\ metta_result = NoResult
    /\ rag_result = NoResult
    /\ executed = "hybrid"
    /\ result = NoResult
    /\ raised = ""
    /\ CitationsIdle
    /\ ThreadsIdle
    /\ ProcessIdle
    /\ call_order = "symbolic_first"
    /\ planned \in [metta : (IF system = "interface" THEN MettaOutcomes(question)
                             ELSE AgnoMettaOutcomes(question)),
                    rag : RagOutcomes(question),
                    fallback : RagOutcomes(question)]
    /\ first_result = NoFirstResult

\* The semantic call left out once the symbolic call is known to have failed
OrderSemanticSkippedAfterFailure ==
    /\ pc = "order_calls"
    /\ ragCalls = 0
    /\ call_order = "semantic_first" \/ mettaCalls = 1
    /\ IF mettaOut.kind = "raise"
       THEN /\ rag_result' = QueryResult(<<"No answer available">>, <<>>, <<>>, "rag", 0,
                                         <<"RAG query skipped">>, "none", <<>>)
            /\ ragOut' = <<planned.rag>>
            /\ ragCalls' = 1
            /\ pc' = "order_compose"
            /\ raised' = raised
       ELSE /\ ragOut' = <<planned.rag>>
            /\ ragCalls' = 1
            /\ IF system = "interface"
               THEN /\ rag_result' = query_rag_only(question, context, planned.rag)
                    /\ raised' = raised
                    /\ pc' = IF mettaCalls = 1 THEN "order_compose" ELSE "order_calls"
               ELSE IF planned.rag.kind = "raise"
               THEN /\ rag_result' = rag_result
                    /\ raised' = "Exception"
                    /\ pc' = "order_end"
               ELSE /\ rag_result' = planned.rag.value
                    /\ raised' = raised
                    /\ pc' = IF mettaCalls = 1 THEN "order_compose" ELSE "order_calls"
    /\ UNCHANGED <<exceptOrder, orderVars, enable_metta, metta_kb, system, requested,
                   question, context, query_type, requested_type, classifyCalls,
                   mettaCalls, mettaOut, metta_result, executed, result>>

\* metta_result = self._query_metta_only(question, context)
\* (Agno: metta_result = self.query_metta(question))
OrderSymbolic ==
    /\ pc = "order_calls"
    /\ mettaCalls = 0
    /\ call_order = "symbolic_first" \/ ragCalls = 1
    /\ mettaOut' = planned.metta
    /\ mettaCalls' = 1
    /\ metta_result' = IF system = "interface"
                       THEN query_metta_only(question, context, planned.metta)
                       ELSE query_metta(question, planned.metta)
    /\ pc' = IF ragCalls = 1 THEN "order_compose" ELSE "order_calls"
    /\ UNCHANGED <<exceptOrder, orderVars, enable_metta, metta_kb, system, requested,
                   question, context, query_type, requested_type, classifyCalls,
                   ragCalls, ragOut, rag_result, executed, result, raised>>

\* rag_result = self._query_rag_only(question, context)
\* (Agno: rag_result = self.query_rag(question); an exception leaves query())
OrderSemantic ==
    /\ pc = "order_calls"
    /\ ragCalls = 0
    /\ call_order = "semantic_first" \/ mettaCalls = 1
    /\ ragOut' = <<planned.rag>>
    /\ ragCalls' = 1
    /\ IF system = "interface"
       THEN /\ rag_result' = query_rag_only(question, context, planned.rag)
            /\ raised' = raised
            /\ pc' = IF mettaCalls = 1 THEN "order_compose" ELSE "order_calls"
       ELSE IF planned.rag.kind = "raise"
       THEN /\ rag_result' = rag_result
            /\ raised' = "Exception"
            /\ pc' = "order_end"
       ELSE /\ rag_result' = planned.rag.value
            /\ raised' = raised
            /\ pc' = IF mettaCalls = 1 THEN "order_compose" ELSE "order_calls"
    /\ UNCHANGED <<exceptOrder, orderVars, enable_metta, metta_kb, system, requested,
                   question, context, query_type, requested_type, classifyCalls,
                   mettaCalls, mettaOut, metta_result, executed, result>>

\* The composition of the two results; in the interface an exception leads
\* to the except clause and its second semantic call.
OrderCompose ==
    /\ pc = "order_compose"
    /\ IF system = "interface"
       THEN LET combined == hybrid_combine(metta_result, rag_result)
            IN IF combined = Raised
               THEN /\ ragOut' = Append(ragOut, planned.fallback)
                    /\ ragCalls' = ragCalls + 1
                    /\ result' = query_rag_only(question, context, planned.fallback)
                    /\ raised' = ""
               ELSE /\ result' = combined
                    /\ raised' = ""
                    /\ UNCHANGED <<ragOut, ragCalls>>
       ELSE LET combined == agno_combine(metta_result, rag_result)
            IN /\ IF combined = Raised
                  THEN raised' = "AttributeError" /\ result' = NoResult
                  ELSE raised' = "" /\ result' = combined
               /\ UNCHANGED <<ragOut, ragCalls>>
    /\ pc' = "order_end"
    /\ UNCHANGED <<exceptOrder, orderVars, enable_metta, metta_kb, system, requested,
                   question, context, query_type, requested_type, classifyCalls,
                   mettaCalls, mettaOut, metta_result, rag_result, executed>>

\* The same query once more, with the two calls exchanged
OrderSwap ==
    /\ pc = "order_end"
    /\ call_order = "symbolic_first"
    /\ first_result' = [result |-> result, raised |-> raised]
    /\ call_order' = "semantic_first"
    /\ pc' = "order_calls"
    /\ mettaCalls' = 0
    /\ ragCalls' = 0
    /\ mettaOut' = NoOutcome
    /\ ragOut' = <<>>
    /\ metta_result' = NoResult
    /\ rag_result' = NoResult
    /\ result' = NoResult
    /\ raised' = ""
    /\ UNCHANGED <<exceptOrder, planned, enable_metta, metta_kb, system, requested,
                   question, context, query_type, requested_type, classifyCalls,
                   executed>>

NextOrder ==
    \/ OrderSymbolic
    \/ OrderSemantic
    \/ OrderCompose
    \/ OrderSwap

SpecOrder == InitOrder /\ [][NextOrder]_vars

\* C22: a hybrid query returns the same result (or raises the same
\* exception) whether the symbolic or the semantic call is made first, for
\* every pair of answers or failures of the two collaborators.
C22_CallOrderIrrelevant ==
    (pc = "order_end" /\ call_order = "semantic_first") =>
        [result |-> result, raised |-> raised] = first_result

\* A symbolic-primary hybrid answer composed with the semantic call first,
\* equal to the one composed with the symbolic call first.
C22_Witness ==
    /\ pc = "order_end"
    /\ call_order = "semantic_first"
    /\ system = "interface"
    /\ result.query_type = "hybrid"
    /\ SymbolicPrimary(metta_result)
    /\ rag_result.answer = <<"B101">>
    /\ first_result = [result |-> result, raised |-> ""]

(***************************************************************************)
(* Two request threads (the Flask applications run threaded) that each     *)
(* call query_for_agent for the first time: get_agent_interface, then      *)
(* interface.query -> _query_rag_only -> FetchAIAgnoRAG.query with its     *)
(* lazy initialization.  A thread is its own identity for the objects it   *)
(* creates: thread t constructs interface t, Knowledge t and agent t.      *)
(***************************************************************************)
ThreadQuestions == {<<"OAuth">>, <<"cache">>}

\* What the retrieval finds for a question
HitsFor(q) ==
    IF q = <<"OAuth">>
    THEN << [content |-> "c1", source |-> "auth.md", score |-> 90] >>
    ELSE << [content |-> "c2", source |-> "limits.md", score |-> 50] >>

\* The variables outside the request threads
exceptThreads == <<queryVars, citeVars, orderVars, procVars>>

InitThreads ==
    /\ QueryIdle
    /\ CitationsIdle
    /\ OrderIdle
    /\ ProcessIdle
    /\ thread_pc = [t \in Threads |-> "get_interface"]
    /\ thread_question \in [Threads -> ThreadQuestions]
    /\ interface = [t \in Threads |-> 0]
    /\ response = [t \in Threads |-> NoResponse]
    /\ thread_result = [t \in Threads |-> NoResult]
    \* agent_api_adapter constructs the interface (instance 1) when it is
    \* imported; other callers of query_for_agent find it not yet constructed.
    /\ agent_interface \in {0, 1}
    /\ constructions = agent_interface
    /\ backend = [i \in Threads |-> NoBackend]
    /\ last_search_results = [k \in Threads |-> <<>>]
    /\ tracks_results \in BOOLEAN

\* get_agent_interface: if _agent_interface is None:
GetAgentInterface ==
    \E t \in Threads :
        /\ thread_pc[t] = "get_interface"
        /\ thread_pc' = [thread_pc EXCEPT ![t] = IF agent_interface = 0 THEN "construct"
                                                 ELSE "return_interface"]
        /\ UNCHANGED <<exceptThreads, thread_question, interface, response,
                       thread_result, agent_interface, constructions, backend,
                       last_search_results, tracks_results>>

\* get_agent_interface: _agent_interface = AgentRAGInterface(...), whose
\* __init__ creates its FetchAIAgnoRAG with lazy_init=True
ConstructInterface ==
    \E t \in Threads :
        /\ thread_pc[t] = "construct"
        /\ constructions' = constructions + 1
        /\ backend' = [backend EXCEPT ![t] = NoBackend]
        /\ agent_interface' = t
        /\ thread_pc' = [thread_pc EXCEPT ![t] = "return_interface"]
        /\ UNCHANGED <<exceptThreads, thread_question, interface, response,
                       thread_result, last_search_results, tracks_results>>

\* get_agent_interface: return _agent_interface
ReturnInterface ==
    \E t \in Threads :
        /\ thread_pc[t] = "return_interface"
        /\ interface' = [interface EXCEPT ![t] = agent_interface]
        /\ thread_pc' = [thread_pc EXCEPT ![t] = "ensure_initialized"]
        /\ UNCHANGED <<exceptThreads, thread_question, response, thread_result,
                       agent_interface, constructions, backend, last_search_results,
                       tracks_results>>

\* ensure_initialized: if not self._initialized:
EnsureInitialized ==
    \E t \in Threads :
        /\ thread_pc[t] = "ensure_initialized"
        /\ thread_pc' = [thread_pc EXCEPT ![t] =
                            IF backend[interface[t]].initialized THEN "run"
                            ELSE "initialize_knowledge"]
        /\ UNCHANGED <<exceptThreads, thread_question, interface, response,
                       thread_result, agent_interface, constructions, backend,
                       last_search_results, tracks_results>>

\* _initialize_agno_rag: self.knowledge = Knowledge(vector_db=vector_db)
InitializeKnowledge ==
    \E t \in Threads :
        /\ thread_pc[t] = "initialize_knowledge"
        /\ backend' = [backend EXCEPT ![interface[t]].knowledge = t,
                                      ![interface[t]].init_runs = @ + 1]
        /\ thread_pc' = [thread_pc EXCEPT ![t] = "initialize_agent"]
        /\ UNCHANGED <<exceptThreads, thread_question, interface, response,
                       thread_result, agent_interface, constructions,
                       last_search_results, tracks_results>>

\* _initialize_agno_rag: self.rag_agent = AgnoAgent(..., knowledge=self.knowledge)
InitializeAgent ==
    \E t \in Threads :
        /\ thread_pc[t] = "initialize_agent"
        /\ backend' = [backend EXCEPT ![interface[t]].rag_agent =
                          [id |-> t, knowledge |-> backend[interface[t]].knowledge]]
        /\ thread_pc' = [thread_pc EXCEPT ![t] = "mark_initialized"]
        /\ UNCHANGED <<exceptThreads, thread_question, interface, response,
                       thread_result, agent_interface, constructions,
                       last_search_results, tracks_results>>

\* ensure_initialized: self._initialized = True
MarkInitialized ==
    \E t \in Threads :
        /\ thread_pc[t] = "mark_initialized"
        /\ backend' = [backend EXCEPT ![interface[t]].initialized = TRUE]
        /\ thread_pc' = [thread_pc EXCEPT ![t] = "run"]
        /\ UNCHANGED <<exceptThreads, thread_question, interface, response,
                       thread_result, agent_interface, constructions,
                       last_search_results, tracks_results>>

\* query: response = self.rag_agent.run(...).  The agent searches the
\* Knowledge it was built with; the hits are kept on that Knowledge object
\* (last_search_results) or come back in response.context.
RunAgent ==
    \E t \in Threads :
        /\ thread_pc[t] = "run"
        /\ LET agent == backend[interface[t]].rag_agent
           IN /\ response' = [response EXCEPT ![t] =
                                [content |-> <<"B101">> \o thread_question[t],
                                 context |-> IF tracks_results THEN <<>>
                                             ELSE HitsFor(thread_question[t]),
                                 agent |-> agent]]
              /\ last_search_results' =
                    IF tracks_results
                    THEN [last_search_results EXCEPT ![agent.knowledge] =
                              HitsFor(thread_question[t])]
                    ELSE last_search_results
        /\ thread_pc' = [thread_pc EXCEPT ![t] = "sources"]
        /\ UNCHANGED <<exceptThreads, thread_question, interface, thread_result,
                       agent_interface, constructions, backend, tracks_results>>

\* query: the sources from self.knowledge.last_search_results, else from
\* response.context, else the placeholder; return the result
ExtractSources ==
    \E t \in Threads :
        /\ thread_pc[t] = "sources"
        /\ LET seen == last_search_results[backend[interface[t]].knowledge]
               hits == IF tracks_results /\ seen # <<>> THEN seen ELSE response[t].context
           IN thread_result' = [thread_result EXCEPT ![t] =
                                   agno_rag_query(thread_question[t],
                                                  [kind |-> "ok",
                                                   content |-> response[t].content,
                                                   hits |-> hits])]
        /\ thread_pc' = [thread_pc EXCEPT ![t] = "done"]
        /\ UNCHANGED <<exceptThreads, thread_question, interface, response,
                       agent_interface, constructions, backend, last_search_results,
                       tracks_results>>

NextThreads ==
    \/ GetAgentInterface
    \/ ConstructInterface
    \/ ReturnInterface
    \/ EnsureInitialized
    \/ InitializeKnowledge
    \/ InitializeAgent
    \/ MarkInitialized
    \/ RunAgent
    \/ ExtractSources

SpecThreads == InitThreads /\ [][NextThreads]_vars

\* What FetchAIAgnoRAG.query returns for the question when no other query runs
AloneResult(q) ==
    agno_rag_query(q, [kind |-> "ok", content |-> <<"B101">> \o q, hits |-> HitsFor(q)])

\* The thread has run the agent of its interface.
HasRun(t) == thread_pc[t] \in {"sources", "done"}

\* C23 (as claimed): two queries running against the same interface
\* instance share no mutable state: each returns what it would return when
\* run alone, and the backend objects a query works with are not replaced
\* by the other query while it runs.
C23_ConcurrentQueriesIndependent ==
    \A t \in Threads :
        (interface[1] = interface[2] /\ interface[t] # 0) =>
            /\ thread_pc[t] = "done" => thread_result[t] = AloneResult(thread_question[t])
            /\ thread_pc[t] = "sources" =>
                  /\ backend[interface[t]].rag_agent = response[t].agent
                  /\ backend[interface[t]].knowledge = response[t].agent.knowledge

\* C29 (as claimed): whatever the interleaving of the first queries, the
\* global interface is constructed at most once, _initialize_agno_rag runs
\* at most once per backend, and a query runs the agent only after the
\* initialization of its backend has completed.
C29_LazyInitializationOnce ==
    /\ constructions <= 1
    /\ \A i \in Threads : backend[i].init_runs <= 1
    /\ \A t \in Threads :
          HasRun(t) => /\ response[t].agent # NoAgent
                       /\ response[t].agent.knowledge # 0

(***************************************************************************)
(* mcp_server.process_documents with create_metta_knowledge_base and       *)
(* create_rag_pipeline, called through api_wrapper.process_docs_endpoint:  *)
(* every request thread of the Flask server runs its own                   *)
(* asyncio.run(process_documents(...)) on the module's globals.            *)
(***************************************************************************)
\* The variables outside process_documents
exceptProcess == <<queryVars, citeVars, orderVars, threadVars>>

\* The rows an earlier run of the ingestion left in the table
ExistingDocuments == [count |-> 1, stored_by |-> <<0, 0>>, embedded |-> TRUE]

InitProcess ==
    /\ QueryIdle
    /\ CitationsIdle
    /\ OrderIdle
    /\ ThreadsIdle
    /\ proc_pc = [t \in Threads |-> "start"]
    /\ proc_calls = [t \in Threads |-> 0]
    /\ proc_return = [t \in Threads |-> ""]
    /\ started_initialized = [t \in Threads |-> FALSE]
    /\ rag_system = 0
    /\ mcp_metta_kb = 0
    /\ processing_status = FALSE
    /\ metta_file \in BOOLEAN
    /\ documents \in {NoDocuments, ExistingDocuments}
    /\ metta_runs = 0
    /\ rag_runs = 0

\* process_documents up to the check of processing_status["initialized"]:
\* an invalid directory and an initialized system return at once.
ProcessDocuments ==
    \E t \in Threads, valid \in BOOLEAN :
        /\ proc_pc[t] = "start"
        /\ proc_calls[t] < MaxCalls
        /\ proc_calls' = [proc_calls EXCEPT ![t] = @ + 1]
        /\ started_initialized' = [started_initialized EXCEPT ![t] = processing_status]
        /\ IF ~valid
           THEN /\ proc_return' = [proc_return EXCEPT ![t] = "Error: Directory does not exist or is not a directory."]
                /\ proc_pc' = proc_pc
           ELSE IF processing_status
           THEN /\ proc_return' = [proc_return EXCEPT ![t] = "System already initialized. Documents are ready for Q&A."]
                /\ proc_pc' = proc_pc
           ELSE /\ proc_return' = [proc_return EXCEPT ![t] = ""]
                /\ proc_pc' = [proc_pc EXCEPT ![t] = "init_rag"]
        /\ UNCHANGED <<exceptProcess, rag_system, mcp_metta_kb, processing_status,
                       metta_file, documents, metta_runs, rag_runs>>

\* if rag_system is None: rag_system = SimpleRAG()
InitRagSystem ==
    \E t \in Threads :
        /\ proc_pc[t] = "init_rag"
        /\ rag_system' = IF rag_system = 0 THEN t ELSE rag_system
        /\ proc_pc' = [proc_pc EXCEPT ![t] = "create_metta"]
        /\ UNCHANGED <<exceptProcess, proc_calls, proc_return, started_initialized,
                       mcp_metta_kb, processing_status, metta_file, documents,
                       metta_runs, rag_runs>>

\* metta_result = await create_metta_knowledge_base(docs_path): the file is
\* loaded into a new knowledge base, or the extraction finds no atom, finds
\* some, or raises (the exception ends process_documents in its except).
CreateMettaKnowledgeBase ==
    \E t \in Threads, extraction \in {"none", "some", "raise"} :
        /\ proc_pc[t] = "create_metta"
        /\ metta_runs' = metta_runs + 1
        /\ IF metta_file
           THEN /\ mcp_metta_kb' = metta_runs + 1
                /\ metta_file' = metta_file
                /\ proc_pc' = [proc_pc EXCEPT ![t] = "create_rag"]
                /\ proc_return' = proc_return
           ELSE IF extraction = "raise"
           THEN /\ UNCHANGED <<mcp_metta_kb, metta_file>>
                /\ proc_pc' = [proc_pc EXCEPT ![t] = "start"]
                /\ proc_return' = [proc_return EXCEPT ![t] = "Document processing failed"]
           ELSE IF extraction = "none"
           THEN /\ UNCHANGED <<mcp_metta_kb, metta_file>>
                /\ proc_pc' = [proc_pc EXCEPT ![t] = "create_rag"]
                /\ proc_return' = proc_return
           ELSE /\ mcp_metta_kb' = metta_runs + 1
                /\ metta_file' = TRUE
                /\ proc_pc' = [proc_pc EXCEPT ![t] = "create_rag"]
                /\ proc_return' = proc_return
        /\ UNCHANGED <<exceptProcess, proc_calls, started_initialized, rag_system,
                       processing_status, documents, rag_runs>>

\* create_rag_pipeline: "Check if database already has documents"; a failure
\* of the check is swallowed and the pipeline is created.
CheckRagPipeline ==
    \E t \in Threads, checked \in BOOLEAN :
        /\ proc_pc[t] = "create_rag"
        /\ rag_runs' = rag_runs + 1
        /\ proc_pc' = [proc_pc EXCEPT ![t] = IF checked /\ documents.count > 0
                                             THEN "update_status" ELSE "store"]
        /\ UNCHANGED <<exceptProcess, proc_calls, proc_return, started_initialized,
                       rag_system, mcp_metta_kb, processing_status, metta_file,
                       documents, metta_runs>>

\* create_rag_pipeline: process_markdown_files and store_documents_in_db
\* (DELETE FROM documents, then the inserts, in one transaction)
StoreDocuments ==
    \E t \in Threads, found \in BOOLEAN, stored \in BOOLEAN :
        /\ proc_pc[t] = "store"
        /\ IF found /\ stored
           THEN /\ documents' = [count |-> 1, stored_by |-> <<t, proc_calls[t]>>,
                                 embedded |-> FALSE]
                /\ proc_pc' = [proc_pc EXCEPT ![t] = "embed"]
           ELSE /\ documents' = documents
                /\ proc_pc' = [proc_pc EXCEPT ![t] = "update_status"]
        /\ UNCHANGED <<exceptProcess, proc_calls, proc_return, started_initialized,
                       rag_system, mcp_metta_kb, processing_status, metta_file,
                       metta_runs, rag_runs>>

\* create_rag_pipeline: generate_embeddings()
GenerateEmbeddings ==
    \E t \in Threads, generated \in BOOLEAN :
        /\ proc_pc[t] = "embed"
        /\ documents' = IF generated /\ documents.count > 0
                        THEN [documents EXCEPT !.embedded = TRUE] ELSE documents
        /\ proc_pc' = [proc_pc EXCEPT ![t] = "update_status"]
        /\ UNCHANGED <<exceptProcess, proc_calls, proc_return, started_initialized,
                       rag_system, mcp_metta_kb, processing_status, metta_file,
                       metta_runs, rag_runs>>

\* processing_status["initialized"] = True; return success_message
UpdateStatus ==
    \E t \in Threads :
        /\ proc_pc[t] = "update_status"
        /\ processing_status' = TRUE
        /\ proc_return' = [proc_return EXCEPT ![t] = "Document Processing Complete!"]
        /\ proc_pc' = [proc_pc EXCEPT ![t] = "start"]
        /\ UNCHANGED <<exceptProcess, proc_calls, started_initialized, rag_system,
                       mcp_metta_kb, metta_file, documents, metta_runs, rag_runs>>

NextProcess ==
    \/ ProcessDocuments
    \/ InitRagSystem
    \/ CreateMettaKnowledgeBase
    \/ CheckRagPipeline
    \/ StoreDocuments
    \/ GenerateEmbeddings
    \/ UpdateStatus

SpecProcess == InitProcess /\ [][NextProcess]_vars

AlreadyInitialized == "System already initialized. Documents are ready for Q&A."
InvalidDirectory == "Error: Directory does not exist or is not a directory."

\* C24 (as claimed): once the system is marked initialized, no call of
\* process_documents runs the MeTTa or the RAG creation or changes
\* rag_system, metta_kb or the stored documents, and every call that starts
\* with a valid directory returns the "already initialized" status; also
\* when calls overlap.
C24_ProcessDocumentsIdempotent ==
    [][processing_status =>
          /\ rag_system' = rag_system
          /\ mcp_metta_kb' = mcp_metta_kb
          /\ documents' = documents
          /\ metta_runs' = metta_runs
          /\ rag_runs' = rag_runs
          /\ \A t \in Threads :
                (proc_calls'[t] # proc_calls[t] /\ proc_return'[t] # InvalidDirectory)
                    => (proc_return'[t] = AlreadyInitialized /\ proc_pc'[t] = "start")]_vars

\* C30 (as claimed): processing_status["initialized"] is true only when the
\* MeTTa knowledge base exists and the documents are stored with their
\* embeddings.
C30_InitializedOnlyWhenCreated ==
    processing_status =>
        /\ mcp_metta_kb # 0
        /\ documents.count > 0
        /\ documents.embedded

====
